---------------------------- MODULE Spec2Model ----------------------------
(***************************************************************************)
(* A model of codecrafters-redis-rust: the RESP parser (src/src/parser.rs), *)
(* the expiring store and the command evaluator (src/src/server.rs), the    *)
(* connection handler, the start-up and the replica's handshake             *)
(* (src/src/main.rs).                                                       *)
(*                                                                          *)
(* A byte is a one-character string, a buffer a sequence of bytes.          *)
(* Positions are 0-based as in the Rust code: At(src, i) is src[i].         *)
(***************************************************************************)
EXTENDS Integers, Sequences, FiniteSets, TLC

(***************************************************************************)
(* Bytes and text                                                           *)
(***************************************************************************)
CR == "\r"
LF == "\n"
CRLF == <<CR, LF>>

DigitChars == <<"0", "1", "2", "3", "4", "5", "6", "7", "8", "9">>

IsDigit(b) == \E i \in 1..10 : DigitChars[i] = b

DigitVal(b) == (CHOOSE i \in 1..10 : DigitChars[i] = b) - 1

UpperChars == <<"A","B","C","D","E","F","G","H","I","J","K","L","M",
                "N","O","P","Q","R","S","T","U","V","W","X","Y","Z">>

LowerChars == <<"a","b","c","d","e","f","g","h","i","j","k","l","m",
                "n","o","p","q","r","s","t","u","v","w","x","y","z">>

\* str::to_lowercase on the ASCII text the model uses
ToLowerByte(b) ==
    IF \E i \in 1..26 : UpperChars[i] = b
    THEN LowerChars[CHOOSE i \in 1..26 : UpperChars[i] = b]
    ELSE b

to_lowercase(s) == [i \in 1..Len(s) |-> ToLowerByte(s[i])]

At(src, i) == src[i + 1]

\* the Rust slice &src[a..b]; the caller checks a <= b <= len (else a panic)
Slice(src, a, b) == SubSeq(src, a + 1, b)

RECURSIVE Flatten(_)
Flatten(ss) == IF ss = <<>> THEN <<>> ELSE Head(ss) \o Flatten(Tail(ss))

\* Display of an unsigned integer (format!("{}", n), usize::to_string)
RECURSIVE Dec(_)
Dec(n) == IF n < 10 THEN <<DigitChars[n + 1]>>
          ELSE Dec(n \div 10) \o <<DigitChars[(n % 10) + 1]>>

RECURSIVE DigitsVal(_)
DigitsVal(s) == IF s = <<>> THEN 0
                ELSE 10 * DigitsVal(SubSeq(s, 1, Len(s) - 1)) + DigitVal(s[Len(s)])

AllDigits(s) == s # <<>> /\ \A i \in 1..Len(s) : IsDigit(s[i])

\* str::parse::<i64>: an optional sign, then at least one digit.  The range
\* check of i64 is left out: the buffers of the model hold numbers of fewer
\* than ten digits.
ParseI64(s) ==
    LET signed == s # <<>> /\ s[1] \in {"+", "-"}
        digits == IF signed THEN Tail(s) ELSE s
    IN  IF ~AllDigits(digits) THEN [ok |-> FALSE, val |-> 0]
        ELSE [ok |-> TRUE,
              val |-> IF signed /\ s[1] = "-" THEN 0 - DigitsVal(digits)
                      ELSE DigitsVal(digits)]

\* str::parse::<u64>: an optional '+', then at least one digit
ParseU64(s) ==
    LET plus == s # <<>> /\ s[1] = "+"
        digits == IF plus THEN Tail(s) ELSE s
    IN  IF ~AllDigits(digits) THEN [ok |-> FALSE, val |-> 0]
        ELSE [ok |-> TRUE, val |-> DigitsVal(digits)]

(***************************************************************************)
(* The RESP parser (src/src/parser.rs).  A result is a record               *)
(*   kind = "ok"    : pos (the new position) and val                        *)
(*   kind = "none"  : Ok(None) / None                                       *)
(*   kind = "err"   : Err(err)                                              *)
(*   kind = "panic" : the thread panics (index out of bounds, unwrap,       *)
(*                    expect, assert, unimplemented, overflow)              *)
(*   kind = "hang"  : the loop does not end                                 *)
(***************************************************************************)
Res(kind, pos, val, err) == [kind |-> kind, pos |-> pos, val |-> val, err |-> err]
Ok(pos, val) == Res("ok", pos, val, "")
None == Res("none", 0, <<>>, "")
Err(e) == Res("err", 0, <<>>, e)
Panic(why) == Res("panic", 0, <<>>, why)
Hang == Res("hang", 0, <<>>, "")

\* BufSplit(start, end)
BufSplit(a, b) == <<a, b>>

\* BufSplit::to_string: &src[self.0..self.1] panics unless 0 <= a <= b <= len
SplitInRange(src, w) == w[1] <= w[2] /\ w[2] <= Len(src)

BufSplit_to_string(src, w) == Slice(src, w[1], w[2])

\* the loop of Parser::token: the first position >= end that holds '\r',
\* or src.len()
RECURSIVE token_loop(_, _)
token_loop(src, end) ==
    IF end < Len(src) /\ At(src, end) # CR THEN token_loop(src, end + 1) ELSE end

\* Parser::token
token_at(src, index, end) ==
    IF end = Len(src) THEN None ELSE Ok(end + 2, BufSplit(index, end))

token(src, index) == token_at(src, index, token_loop(src, index))

\* Parser::parse_int, from the token on
parse_int_of(src, t) ==
    IF t.kind = "none" THEN Panic("unwrap on None")
    ELSE IF ~ParseI64(Slice(src, t.val[1] + 1, t.val[2])).ok THEN Err("IntParseFailure")
    ELSE Ok(t.val[2] + 2, ParseI64(Slice(src, t.val[1] + 1, t.val[2])).val)

\* Parser::parse_int
parse_int(src, index) ==
    IF index >= Len(src) THEN Panic("index out of bounds")
    ELSE IF At(src, index) \notin {"$", ":", "*"} THEN Err("UnknownStartingByte")
    ELSE parse_int_of(src, token(src, index))

\* Parser::parse_bulk_string, from the length n on.  A negative length cast to
\* usize is 2^64 + size: index + size then overflows when index + size >= 0 (a
\* panic with overflow checks, a wrap to index + size without), and is beyond
\* any buffer otherwise.
parse_bulk_string_of(src, n, checks) ==
    IF n.kind # "ok" THEN n
    ELSE IF n.val < 0 /\ n.pos + n.val < 0 THEN Err("UnexpectedEnd")
    ELSE IF n.val < 0 /\ checks THEN Panic("add with overflow")
    ELSE IF n.pos + n.val > Len(src) THEN Err("UnexpectedEnd")
    ELSE Ok(n.pos + n.val + 2, BufSplit(n.pos, n.pos + n.val))

\* Parser::parse_bulk_string
parse_bulk_string(src, index, checks) ==
    IF index >= Len(src) THEN Panic("index out of bounds")
    ELSE IF At(src, index) # "$" THEN Panic("assertion failed")
    ELSE parse_bulk_string_of(src, parse_int(src, index), checks)

\* the loop of Parser::parse_array: `left` elements still to read at pos;
\* left = -1 stands for a count that no buffer can satisfy (a negative size
\* cast to usize); fuel bounds the passes of a loop that makes no progress
RECURSIVE parse_array_loop(_, _, _, _, _, _)
\* one pass of the loop, from the parsed element w on
parse_array_pass(src, left, tokens, checks, fuel, w) ==
    IF w.kind = "panic" THEN w
    ELSE IF w.kind # "ok" THEN Panic("failed to parse bulk string")
    ELSE parse_array_loop(src, w.pos, IF left < 0 THEN left ELSE left - 1,
                          Append(tokens, w.val), checks, fuel - 1)

parse_array_loop(src, pos, left, tokens, checks, fuel) ==
    IF left = 0 THEN Ok(pos, tokens)
    ELSE IF fuel = 0 THEN Hang
    ELSE IF pos >= Len(src) THEN Panic("index out of bounds")
    ELSE IF At(src, pos) # "$" THEN Panic("not implemented")
    ELSE parse_array_pass(src, left, tokens, checks, fuel,
                          parse_bulk_string(src, pos, checks))

\* Parser::parse_array, from the size n on
parse_array_of(src, n, checks) ==
    IF n.kind # "ok" THEN n
    ELSE parse_array_loop(src, n.pos, IF n.val < 0 THEN -1 ELSE n.val,
                          <<>>, checks, 2 * Len(src) + 2)

\* Parser::parse_array
parse_array(src, index, checks) ==
    IF index >= Len(src) THEN Panic("index out of bounds")
    ELSE IF At(src, index) # "*" THEN Panic("assertion failed")
    ELSE parse_array_of(src, parse_int(src, index), checks)

(***************************************************************************)
(* Values and replies (src/src/server.rs)                                   *)
(***************************************************************************)
\* RedisValue: <<"String", s>>, <<"Int", digits>>, <<"Array", values>>, <<"Null">>
RString(s) == <<"String", s>>
RArray(vs) == <<"Array", vs>>
RNull == <<"Null">>

PONG_RESP == <<"+", "P", "O", "N", "G">> \o CRLF
OK_RESP == <<"+", "O", "K">> \o CRLF
NULL_RESP == <<"$", "-", "1">> \o CRLF

\* RedisValue::to_response
RECURSIVE to_response(_)
to_response(v) ==
    CASE v[1] = "String" -> <<"+">> \o v[2] \o CRLF
      [] v[1] = "Int"    -> <<":">> \o v[2] \o CRLF
      [] v[1] = "Array"  ->
            <<"*">> \o Dec(Len(v[2])) \o CRLF
            \o Flatten([i \in 1..Len(v[2]) |-> to_response(v[2][i])])
      [] OTHER           -> NULL_RESP

\* format!("${}\r\n{}\r\n", s.len(), s): the reply of ECHO and DOCS
BulkReply(s) == <<"$">> \o Dec(Len(s)) \o CRLF \o s \o CRLF

(***************************************************************************)
(* The store (src/src/server.rs): a HashMap from key to (value, deadline),  *)
(* modelled as a function whose domain is the set of keys present.  An      *)
(* Option is <<>> (None) or <<x>> (Some(x)); an Instant is a number of      *)
(* milliseconds.                                                            *)
(***************************************************************************)
NoneOpt == <<>>
Some(x) == <<x>>

EmptyDb == [k \in {} |-> <<>>]

\* an insert that would keep the entry of a key already present
HashMap_insert_absent(m, k, e) ==
    IF k \in DOMAIN m THEN m ELSE [x \in (DOMAIN m) \cup {k} |-> IF x = k THEN e ELSE m[x]]

\* db.insert(key, e): the entry of a key already present is replaced
HashMap_insert(m, k, e) == [x \in (DOMAIN m) \cup {k} |-> IF x = k THEN e ELSE m[x]]

HashMap_remove(m, k) == [x \in (DOMAIN m) \ {k} |-> m[x]]

\* a test that would take the entry as expired at its deadline already
Expired_at_deadline(t, expiration) == t >= expiration

\* the test of RedisServer::get on the deadline: Instant::now() > *expiration
Expired(t, expiration) == t > expiration

\* db.get(key).cloned()
HashMap_get(m, k) == IF k \in DOMAIN m THEN Some(m[k]) ELSE NoneOpt

\* RedisServer::get under the lock, from the looked-up entry res on: the
\* value returned and the map left behind
RedisServer_get_of(m, key, res, t) ==
    IF res = NoneOpt THEN [value |-> NoneOpt, db |-> m]
    ELSE IF res[1][2] # NoneOpt /\ Expired(t, res[1][2][1])
    THEN [value |-> NoneOpt, db |-> HashMap_remove(m, key)]
    ELSE [value |-> Some(res[1][1]), db |-> m]

\* RedisServer::get under the lock: the value returned and the map left behind
RedisServer_get(m, key, t) == RedisServer_get_of(m, key, HashMap_get(m, key), t)

\* the deadline RedisServer::set stores
SetDeadline(duration, t) == IF duration # NoneOpt THEN Some(t + duration[1]) ELSE NoneOpt

\* RedisServer::set under the lock: the map left behind
RedisServer_set(m, key, value, duration, t) ==
    HashMap_insert(m, key, <<value, SetDeadline(duration, t)>>)

(***************************************************************************)
(* Texts of the program                                                     *)
(***************************************************************************)
\* EMPTY_RDB_HEX, hex digit by hex digit
EMPTY_RDB_HEX ==
    <<"5", "2", "4", "5", "4", "4", "4", "9", "5", "3", "3", "0", "3", "0", "3", "1", "3", "1", "f", "a", "0", "9", "7", "2", "6", "5", "6", "4", "6", "9", "7", "3", "2", "d", "7", "6", "6", "5", "7", "2", "0", "5", "3", "7", "2", "e", "3", "2", "2", "e", "3", "0", "f", "a", "0", "a", "7", "2", "6", "5">>
    \o <<"6", "4", "6", "9", "7", "3", "2", "d", "6", "2", "6", "9", "7", "4", "7", "3", "c", "0", "4", "0", "f", "a", "0", "5", "6", "3", "7", "4", "6", "9", "6", "d", "6", "5", "c", "2", "6", "d", "0", "8", "b", "c", "6", "5", "f", "a", "0", "8", "7", "5", "7", "3", "6", "5", "6", "4", "2", "d", "6", "d">>
    \o <<"6", "5", "6", "d", "c", "2", "b", "0", "c", "4", "1", "0", "0", "0", "f", "a", "0", "8", "6", "1", "6", "f", "6", "6", "2", "d", "6", "2", "6", "1", "7", "3", "6", "5", "c", "0", "0", "0", "f", "f", "f", "0", "6", "e", "3", "b", "f", "e", "c", "0", "f", "f", "5", "a", "a", "2">>

\* the byte a pair of hex digits stands for: the bytes the parser tells apart
\* are the model's one-character bytes, any other byte is named by its pair
HexByte(h1, h2) ==
    LET pair == h1 \o h2
    IN  CASE pair = "0a" -> LF
          [] pair = "0d" -> CR
          [] pair = "24" -> "$"
          [] pair = "2a" -> "*"
          [] pair = "2b" -> "+"
          [] pair = "2d" -> "-"
          [] pair = "3a" -> ":"
          [] h1 = "3" /\ IsDigit(h2) -> h2
          [] OTHER -> pair

\* decode_hex
decode_hex(s) == [i \in 1..(Len(s) \div 2) |-> HexByte(s[2 * i - 1], s[2 * i])]

\* RedisServer::rdb_dump
rdb_dump == decode_hex(EMPTY_RDB_HEX)

\* config.master_replid
MASTER_REPLID ==
    <<"8", "3", "7", "1", "b", "4", "f", "b", "1", "1", "5", "5", "b", "7", "1", "f", "4", "a", "0", "4">>
    \o <<"d", "3", "e", "1", "b", "c", "3", "e", "1", "8", "c", "4", "a", "9", "9", "0", "a", "e", "e", "b">>

W_echo == <<"e", "c", "h", "o">>
W_ping == <<"p", "i", "n", "g">>
W_set == <<"s", "e", "t">>
W_get == <<"g", "e", "t">>
W_docs == <<"d", "o", "c", "s">>
W_info == <<"i", "n", "f", "o">>
W_replconf == <<"r", "e", "p", "l", "c", "o", "n", "f">>
W_psync == <<"p", "s", "y", "n", "c">>

DOCS_URL ==
    <<"h", "t", "t", "p", "s", ":", "/", "/", "g", "i", "t", "h", "u", "b", ".", "c", "o", "m", "/", "r", "e", "d", "i", "s", "/", "r", "e", "d", "i", "s", "-", "d", "o", "c">>
    \o <<"/", "b", "l", "o", "b", "/", "m", "a", "s", "t", "e", "r", "/", "c", "o", "m", "m", "a", "n", "d", "s", ".", "m", "d">>

S_FULLRESYNC == <<"F", "U", "L", "L", "R", "E", "S", "Y", "N", "C", " ">>
S_role == <<"r", "o", "l", "e", ":">>
S_replid == <<"\n", "m", "a", "s", "t", "e", "r", "_", "r", "e", "p", "l", "i", "d", ":">>
S_reploffset == <<"\n", "m", "a", "s", "t", "e", "r", "_", "r", "e", "p", "l", "_", "o", "f", "f", "s", "e", "t", ":">>
S_replication == <<"r", "e", "p", "l", "i", "c", "a", "t", "i", "o", "n">>
S_master == <<"m", "a", "s", "t", "e", "r">>
S_slave == <<"s", "l", "a", "v", "e">>

\* RedisServer::info; config.master_reploffset is set to 0 and never changed
RedisServer_info(section, is_replica) ==
    IF section = S_replication
    THEN RString(S_role \o (IF is_replica THEN S_slave ELSE S_master)
                 \o S_replid \o MASTER_REPLID \o S_reploffset \o Dec(0))
    ELSE RNull

(***************************************************************************)
(* What the peers send: commands as RESP arrays of bulk strings             *)
(***************************************************************************)
Bulk(s) == <<"$">> \o Dec(Len(s)) \o CRLF \o s \o CRLF

Cmd(ws) == <<"*">> \o Dec(Len(ws)) \o CRLF \o Flatten([i \in 1..Len(ws) |-> Bulk(ws[i])])

K_foo == <<"f", "o", "o">>
V_bar == <<"b", "a", "r">>
V_baz == <<"b", "a", "z">>

F_SetBar == Cmd(<<<<"S", "E", "T">>, K_foo, V_bar>>)
F_SetBaz == Cmd(<<<<"S", "E", "T">>, K_foo, V_baz>>)
F_Get == Cmd(<<<<"G", "E", "T">>, K_foo>>)
F_Ping == Cmd(<<<<"P", "I", "N", "G">>>>)
F_GetAck == Cmd(<<<<"R", "E", "P", "L", "C", "O", "N", "F">>,
                  <<"G", "E", "T", "A", "C", "K">>, <<"*">>>>)
F_ListeningPort == Cmd(<<<<"R", "E", "P", "L", "C", "O", "N", "F">>,
                         <<"l", "i", "s", "t", "e", "n", "i", "n", "g", "-", "p", "o", "r", "t">>,
                         <<"6", "3", "8", "0">>>>)
F_Capa == Cmd(<<<<"R", "E", "P", "L", "C", "O", "N", "F">>,
                <<"c", "a", "p", "a">>, <<"p", "s", "y", "n", "c", "2">>>>)
F_Psync == Cmd(<<<<"P", "S", "Y", "N", "C">>, <<"?">>, <<"-", "1">>>>)

\* GET with no key, and a command that no handler knows
F_GetNoKey == Cmd(<<<<"G", "E", "T">>>>)
F_Flushall == Cmd(<<<<"F", "L", "U", "S", "H", "A", "L", "L">>>>)

F_Info == Cmd(<<<<"I", "N", "F", "O">>, S_replication>>)

\* a SET of five elements whose expiry is not a number
F_SetPxAbc == Cmd(<<<<"S", "E", "T">>, K_foo, V_bar, <<"P", "X">>, <<"a", "b", "c">>>>)

\* where the model cuts F_SetBar when it delivers it in two reads
SplitPoints == {10}

\* what one read of a client connection may return
ClientReads ==
    { F_SetBar, F_SetBaz, F_SetBar \o F_SetBaz, F_Get, F_Ping, F_Psync \o F_Ping,
      F_GetNoKey, F_Flushall \o F_Ping, F_Info, F_SetPxAbc }
    \cup {SubSeq(F_SetBar, 1, i) : i \in SplitPoints}
    \cup {SubSeq(F_SetBar, i + 1, Len(F_SetBar)) : i \in SplitPoints}

\* what a replica sends its master, in order (spec 4.6, scenario 6)
HandshakeMsgs == <<F_Ping, F_ListeningPort, F_Capa, F_Psync>>

\* what one read of the replica's connection from a master may return
MasterReads ==
    { F_Ping, F_SetBar, F_SetBaz, F_Capa, F_GetAck, F_SetBar \o F_GetAck, F_Flushall \o F_SetBar }

(***************************************************************************)
(* The bounds of the model                                                  *)
(***************************************************************************)
NClients == 2
MaxReads == 2
HubCapacity == 2

(***************************************************************************)
(* State                                                                    *)
(***************************************************************************)
Clients == 1..NClients
\* the master's connection whose peer is the replica
LinkM == NClients + 1
\* the replica's connection from its master
LinkR == NClients + 2
Conns == Clients \cup {LinkM, LinkR}
Nodes == {"master", "replica"}

VARIABLES
    now,              \* Instant::now(), in milliseconds
    overflow_checks,  \* the build: whether integer overflow panics
    hub_rx0,          \* whether the creator of the broadcast channel keeps its receiver
    peer_closed,      \* per connection: whether the peer has closed its end
    db,               \* per node, RedisServer.db
    handler,          \* per connection, the function serving it
    pc,               \* per connection, where its task is
    inbox,            \* the writes of the master that the replica has not read yet
    bm,               \* per connection, the buffer evaluate works on
    pos,              \* per connection, evaluate's pos
    out,              \* per connection, the writes made to the peer, in order
    hub,              \* the messages sent on the broadcast channel, in order
    rx,               \* per connection, how many hub messages its receiver has passed (-1: no receiver)
    budget,           \* the reads the peers may still send
    delivered,        \* history: per connection, the reads its peer sent
    executed,         \* history: per connection, the commands executed
    applied,          \* history: per node, the SETs applied to db, in order
    mutex,            \* the task holding the lock of RedisServer.db, 0 when it is free
    call,             \* per task, the call of get or set it is in
    history,          \* history: the calls of get and set completed, in order
    port,             \* server.config.port of the replica
    hs_pc,            \* where handshake_master_ping is
    hs_sent,          \* what handshake_master_ping wrote on the stream to the master, in order
    hs_recv,          \* the responses handshake_master_ping read, in order
    main_pc,          \* where main of the replica is: "handshake", "listening" or "aborted"
    cmd_bm,           \* the buffer a call of Parser::parse_commands is given
    cmd_pos,          \* parse_commands: pos
    commands,         \* parse_commands: the vector commands
    cmd_res,          \* parse_commands: "running", or how the call ended
    codec_value,      \* the value handed to an encoder
    codec_enc,        \* the encoder applied: "to_resp" or "to_response"
    codec_bytes,      \* what the encoder returned
    codec_dec,        \* what the decoder returned on codec_bytes
    codec_pc          \* "value", "encoded" or "decoded"

\* the variables of the calls of get and set
storeVars == <<mutex, call, history>>

\* the variables of the connections
netVars == <<overflow_checks, hub_rx0, peer_closed, handler, pc, inbox, bm, pos, out, hub, rx, budget,
             delivered, executed, applied>>

\* the variables of the replica's handshake
hsVars == <<port, hs_pc, hs_sent, hs_recv, main_pc>>

\* the variables of a call of Parser::parse_commands
parseVars == <<cmd_bm, cmd_pos, commands, cmd_res>>

\* the variables of an encoding followed by a decoding
codecVars == <<codec_value, codec_enc, codec_bytes, codec_dec, codec_pc>>

vars == <<now, db, netVars, storeVars, hsVars, parseVars, codecVars>>

\* a task that is in no call
Idle == [pc |-> "idle", key |-> <<>>, value |-> <<>>, duration |-> NoneOpt, res |-> NoneOpt]

node(c) == IF c = LinkR THEN "replica" ELSE "master"

\* RedisServer::evaluate: self.config.master_host_port.is_some()
is_replica(c) == node(c) = "replica"

(***************************************************************************)
(* Command dispatch: what the handlers read of a parsed array               *)
(***************************************************************************)
\* a[i].to_string(&bm) panics when a has no element i or the split is no slice
ArgOk(buf, a, i) == i < Len(a) /\ SplitInRange(buf, a[i + 1])

Arg(buf, a, i) == BufSplit_to_string(buf, a[i + 1])

\* the outcome of one command: kind "ok", "panic" or "hang", the map left
\* behind, the writes made and the command as the history records it
Outcome(kind, m, writes, cmd) == [kind |-> kind, db |-> m, writes |-> writes, cmd |-> cmd]

Panicked(m) == Outcome("panic", m, <<>>, <<>>)

\* the arm "get" from the result g of RedisServer::get on
GetArm(key, g) ==
    Outcome("ok", g.db,
            <<IF g.value = NoneOpt THEN NULL_RESP ELSE to_response(g.value[1])>>,
            <<"get", key>>)

\* the arms "echo", "get", "docs", "info" and "ping", which the match of
\* handle_connection (main.rs) and that of evaluate (server.rs) share: both
\* write the reply whatever the role
CommonArms(buf, a, command, m, t, replica) ==
    CASE command = W_echo ->
            IF ~ArgOk(buf, a, 1) THEN Panicked(m)
            ELSE Outcome("ok", m, <<BulkReply(Arg(buf, a, 1))>>, <<"echo", Arg(buf, a, 1)>>)
      [] command = W_ping -> Outcome("ok", m, <<PONG_RESP>>, <<"ping">>)
      [] command = W_get ->
            IF ~ArgOk(buf, a, 1) THEN Panicked(m)
            ELSE GetArm(Arg(buf, a, 1), RedisServer_get(m, Arg(buf, a, 1), t))
      [] command = W_docs -> Outcome("ok", m, <<BulkReply(DOCS_URL)>>, <<"docs">>)
      [] command = W_info ->
            IF ~ArgOk(buf, a, 1) THEN Panicked(m)
            ELSE Outcome("ok", m,
                         <<to_response(RedisServer_info(Arg(buf, a, 1), replica))>>,
                         <<"info", Arg(buf, a, 1)>>)
      [] OTHER -> Panicked(m)

\* the arm "set" from the key, the value and the duration on: the store is
\* written and +OK replied unless no_response
SetStore(key, value, duration, m, t, silent) ==
    Outcome("ok", RedisServer_set(m, key, RString(value), duration, t),
            IF silent THEN <<>> ELSE <<OK_RESP>>,
            <<"set", key, value, duration>>)

\* the arm "set" with five elements, from the parsed expiry ms on
SetArmExpiry(buf, a, m, t, silent, ms) ==
    IF ~ms.ok THEN Panicked(m)
    ELSE SetStore(Arg(buf, a, 1), Arg(buf, a, 2), Some(ms.val), m, t, silent)

\* the arm "set" of both handlers after the publication: the fifth element is
\* read as milliseconds whatever the fourth says
SetArm(buf, a, m, t, silent) ==
    IF Len(a) = 5
    THEN IF ~(ArgOk(buf, a, 1) /\ ArgOk(buf, a, 2) /\ ArgOk(buf, a, 4)) THEN Panicked(m)
         ELSE SetArmExpiry(buf, a, m, t, silent, ParseU64(Arg(buf, a, 4)))
    ELSE IF ~(ArgOk(buf, a, 1) /\ ArgOk(buf, a, 2)) THEN Panicked(m)
         ELSE SetStore(Arg(buf, a, 1), Arg(buf, a, 2), NoneOpt, m, t, silent)

\* the match on the command of handle_connection (main.rs)
handle_connection_match(buf, a, command, m, t, replica) ==
    IF command = W_set THEN SetArm(buf, a, m, t, FALSE)
    ELSE CommonArms(buf, a, command, m, t, replica)

\* handle_connection from the parsed array pa on
handle_connection_of(buf, pa, m, t, replica) ==
    IF pa.kind # "ok" THEN Outcome(IF pa.kind = "hang" THEN "hang" ELSE "panic", m, <<>>, <<>>)
    ELSE IF ~ArgOk(buf, pa.val, 0) THEN Panicked(m)
    ELSE handle_connection_match(buf, pa.val, to_lowercase(Arg(buf, pa.val, 0)), m, t, replica)

\* one pass of the loop of handle_connection (main.rs) on a read of n > 0
\* bytes: the array at position 0 is parsed and executed, the rest of the
\* read is dropped
handle_connection_read(buf, m, t, checks, replica) ==
    IF At(buf, 0) # "*" THEN Panicked(m)
    ELSE handle_connection_of(buf, parse_array(buf, 0, checks), m, t, replica)

(***************************************************************************)
(* The connection tasks                                                     *)
(***************************************************************************)
Write(c, writes) == out' = [out EXCEPT ![c] = @ \o writes]

Record(c, cmd) == executed' = [executed EXCEPT ![c] = Append(@, cmd)]

\* the history of the SETs applied to a node's store
Applied(n, cmd) == applied' = [applied EXCEPT ![n] = Append(@, cmd)]

\* what stream.read returns next on connection c: for a client any of
\* ClientReads while the budget lasts, for the master's connection to the
\* replica the next message of the handshake once the reply to the one before
\* was written, for the replica's connection from its master what the master
\* wrote
ReadsOf(c) ==
    IF peer_closed[c] THEN {}
    ELSE IF c \in Clients THEN (IF budget > 0 THEN ClientReads ELSE {})
    ELSE IF c = LinkM
    THEN (IF Len(delivered[c]) < Len(HandshakeMsgs) /\ Len(out[c]) >= Len(delivered[c])
          THEN {HandshakeMsgs[Len(delivered[c]) + 1]} ELSE {})
    ELSE (IF inbox # <<>> THEN {Head(inbox)} ELSE {})

\* stream.read has returned r on connection c
Deliver(c, r) ==
    /\ budget' = IF c \in Clients THEN budget - 1 ELSE budget
    /\ inbox' = IF c = LinkR THEN Tail(inbox) ELSE inbox
    /\ delivered' = [delivered EXCEPT ![c] = Append(@, r)]

Read(c, r) ==
    /\ r \in ReadsOf(c)
    /\ Deliver(c, r)

\* the end of one command of a task: its outcome h takes effect and the task
\* goes on at pc value `next`
Finish(c, h, next) ==
    /\ pc' = [pc EXCEPT ![c] = IF h.kind = "ok" THEN next
                               ELSE IF h.kind = "hang" THEN "hung" ELSE "panicked"]
    /\ db' = [db EXCEPT ![node(c)] = h.db]
    /\ Write(c, h.writes)
    /\ IF h.kind = "ok" THEN Record(c, h.cmd) ELSE UNCHANGED executed
    /\ IF h.kind = "ok" /\ h.cmd[1] = "set"
       THEN Applied(node(c), h.cmd) ELSE UNCHANGED applied

\* handle_connection (main.rs): one pass of its loop, from the read to the reply
HandleConnectionOf(c, r) ==
    /\ handler = "handle_connection"
    /\ c # LinkR
    /\ pc[c] = "read"
    /\ Finish(c, handle_connection_read(r, db[node(c)], now, overflow_checks, is_replica(c)),
              "read")
    /\ UNCHANGED <<storeVars, hsVars, parseVars, codecVars>>
    /\ UNCHANGED <<now, overflow_checks, hub_rx0, peer_closed, handler, bm, pos, hub, rx>>

HandleConnection(c, r) ==
    /\ Read(c, r)
    /\ HandleConnectionOf(c, r)

\* the caller of RedisServer::evaluate: the bytes of one read of the
\* connection are the buffer bm of one call
EvaluateReadOf(c, r) ==
    /\ handler = "evaluate" \/ c = LinkR
    /\ pc[c] = "read"
    /\ pc' = [pc EXCEPT ![c] = "eval"]
    /\ bm' = [bm EXCEPT ![c] = r]
    /\ pos' = [pos EXCEPT ![c] = 0]
    /\ UNCHANGED <<storeVars, hsVars, parseVars, codecVars>>
    /\ UNCHANGED <<now, overflow_checks, hub_rx0, peer_closed, db, handler, out, hub, rx, executed, applied>>

EvaluateRead(c, r) ==
    /\ Read(c, r)
    /\ EvaluateReadOf(c, r)

\* evaluate: the array at pos as the head of the loop body gives it, from the
\* result pa of parse_array on
EvalFrameOf(buf, pa) ==
    IF pa.kind = "err" THEN Panic("failed to parse array")
    ELSE IF pa.kind = "ok" /\ ~ArgOk(buf, pa.val, 0) THEN Panic("index out of bounds")
    ELSE pa

EvalFrame(c) ==
    IF At(bm[c], pos[c]) # "*" THEN Panic("not implemented")
    ELSE EvalFrameOf(bm[c], parse_array(bm[c], pos[c], overflow_checks))

\* where the task goes after the command that ends at position p
AfterCommand(c, p) == IF p < Len(bm[c]) THEN "eval" ELSE "read"

\* a psync arm that would return to the loop over the buffer
AfterPsyncReturns(c, p) == AfterCommand(c, p)

\* where the task goes after the three writes of the arm "psync", which ends
\* at position p: into the loop on rx.recv(), which has no exit
AfterPsync(c, p) == "subscribe"

\* the receivers of the broadcast channel that are alive
Receivers == {c \in Conns : rx[c] >= 0 /\ pc[c] = "recv"}

\* what tx.send(s) is given in the arm "set": String::from_utf8_lossy(&bm)
Published(buf, start, end) == buf

\* the three writes of the arm "psync"
PsyncWrites ==
    << to_response(RString(S_FULLRESYNC \o MASTER_REPLID \o <<" ", "0">>)),
       <<"$">> \o Dec(Len(rdb_dump)) \o CRLF,
       rdb_dump >>

\* evaluate: the match on the command, for the array pa at pos
EvaluateMatch(c, pa, command) ==
    IF command = W_set /\ ~is_replica(c)
    THEN \* tx.send: an error, and a panic, without receivers
         /\ IF Receivers = {} /\ ~hub_rx0
            THEN pc' = [pc EXCEPT ![c] = "panicked"] /\ UNCHANGED hub
            ELSE /\ hub' = Append(hub, Published(bm[c], pos[c], pa.pos))
                 /\ pc' = [pc EXCEPT ![c] = "set"]
         /\ UNCHANGED <<db, pos, out, executed, applied>>
    ELSE IF command = W_set
    THEN /\ Finish(c, SetArm(bm[c], pa.val, db[node(c)], now, TRUE), AfterCommand(c, pa.pos))
         /\ pos' = [pos EXCEPT ![c] = pa.pos]
         /\ UNCHANGED hub
    ELSE IF command = W_replconf
    THEN /\ Finish(c, Outcome("ok", db[node(c)], <<OK_RESP>>,
                              <<"replconf", IF ArgOk(bm[c], pa.val, 1)
                                            THEN Arg(bm[c], pa.val, 1) ELSE <<>>>>),
                   AfterCommand(c, pa.pos))
         /\ pos' = [pos EXCEPT ![c] = pa.pos]
         /\ UNCHANGED hub
    ELSE IF command = W_psync
    THEN /\ Finish(c, Outcome("ok", db[node(c)], PsyncWrites, <<"psync">>),
                   AfterPsync(c, pa.pos))
         /\ pos' = [pos EXCEPT ![c] = pa.pos]
         /\ UNCHANGED hub
    ELSE /\ Finish(c, CommonArms(bm[c], pa.val, command, db[node(c)], now, is_replica(c)),
                   AfterCommand(c, pa.pos))
         /\ pos' = [pos EXCEPT ![c] = pa.pos]
         /\ UNCHANGED hub

\* evaluate: one pass of the loop `while pos < bm.len()` from the array pa on
EvaluatePass(c, pa) ==
    IF pa.kind # "ok"
    THEN /\ pc' = [pc EXCEPT ![c] = IF pa.kind = "hang" THEN "hung" ELSE "panicked"]
         /\ UNCHANGED <<db, pos, out, hub, executed, applied>>
    ELSE EvaluateMatch(c, pa, to_lowercase(Arg(bm[c], pa.val, 0)))

\* evaluate: one pass of the loop `while pos < bm.len()`, up to the command's
\* reply; the arm "set" of a master stops after the send, the arm "psync" after
\* its three writes
EvaluateStep(c) ==
    /\ pc[c] = "eval"
    /\ EvaluatePass(c, EvalFrame(c))
    /\ UNCHANGED <<storeVars, hsVars, parseVars, codecVars>>
    /\ UNCHANGED <<now, overflow_checks, hub_rx0, peer_closed, handler, inbox, bm, rx, budget, delivered>>

\* evaluate, arm "set" of a master after the send, for the array pa at pos
EvaluateSetApplyOf(c, pa) ==
    /\ Finish(c, SetArm(bm[c], pa.val, db[node(c)], now, is_replica(c)),
              AfterCommand(c, pa.pos))
    /\ pos' = [pos EXCEPT ![c] = pa.pos]

\* evaluate, arm "set" of a master after the send: the store is written and
\* +OK replied
EvaluateSetApply(c) ==
    /\ pc[c] = "set"
    /\ EvaluateSetApplyOf(c, EvalFrame(c))
    /\ UNCHANGED <<storeVars, hsVars, parseVars, codecVars>>
    /\ UNCHANGED <<now, overflow_checks, hub_rx0, peer_closed, handler, inbox, bm, hub, rx, budget, delivered>>

\* evaluate, arm "psync" after the three writes: tx.subscribe()
EvaluateSubscribe(c) ==
    /\ pc[c] = "subscribe"
    /\ rx' = [rx EXCEPT ![c] = Len(hub)]
    /\ pc' = [pc EXCEPT ![c] = "recv"]
    /\ UNCHANGED <<storeVars, hsVars, parseVars, codecVars>>
    /\ UNCHANGED <<now, overflow_checks, hub_rx0, peer_closed, db, handler, inbox, bm, pos, out, hub,
                   budget, delivered, executed, applied>>

\* a receiver that would hand out the newest message of the channel
recv_newest(c) == hub[Len(hub)]

\* rx.recv() of a receiver that has not lagged: the oldest message it has not
\* seen yet
recv(c) == hub[rx[c] + 1]

\* evaluate, arm "psync": one pass of the loop on rx.recv().  A receiver that
\* is more than the capacity behind gets Err(Lagged), and unwrap panics.  What
\* the master writes on its connection to the replica is what the replica's
\* connection from its master reads.
EvaluateRecv(c) ==
    /\ pc[c] = "recv"
    /\ rx[c] < Len(hub)
    /\ IF Len(hub) - rx[c] > HubCapacity
       THEN /\ pc' = [pc EXCEPT ![c] = "panicked"]
            /\ UNCHANGED <<rx, out, inbox>>
       ELSE /\ rx' = [rx EXCEPT ![c] = @ + 1]
            /\ Write(c, <<recv(c)>>)
            /\ inbox' = IF c = LinkM THEN Append(inbox, recv(c)) ELSE inbox
            /\ UNCHANGED pc
    /\ UNCHANGED <<storeVars, hsVars, parseVars, codecVars>>
    /\ UNCHANGED <<now, overflow_checks, hub_rx0, peer_closed, db, handler, bm, pos, hub, budget,
                   delivered, executed, applied>>

(***************************************************************************)
(* Spec: a master with its clients and one replica.  No read of this        *)
(* specification holds a negative length, the one place where the builds    *)
(* differ, and no SET carries an expiry: the build and the clock are fixed. *)
(***************************************************************************)
Init ==
    /\ now = 0
    /\ overflow_checks = TRUE
    /\ hub_rx0 \in BOOLEAN
    /\ peer_closed = [c \in Conns |-> FALSE]
    /\ db = [n \in Nodes |-> EmptyDb]
    /\ handler \in {"handle_connection", "evaluate"}
    /\ pc = [c \in Conns |-> "read"]
    /\ inbox = <<>>
    /\ bm = [c \in Conns |-> <<>>]
    /\ pos = [c \in Conns |-> 0]
    /\ out = [c \in Conns |-> <<>>]
    /\ hub = <<>>
    /\ rx = [c \in Conns |-> -1]
    /\ budget = MaxReads
    /\ delivered = [c \in Conns |-> <<>>]
    /\ executed = [c \in Conns |-> <<>>]
    /\ applied = [n \in Nodes |-> <<>>]
    /\ mutex = 0
    /\ call = [t \in Clients |-> Idle]
    /\ history = <<>>
    /\ port = 6380
    /\ hs_pc = "off"
    /\ hs_sent = <<>>
    /\ hs_recv = <<>>
    /\ main_pc = "handshake"
    /\ cmd_bm = <<>>
    /\ cmd_pos = 0
    /\ commands = <<>>
    /\ cmd_res = "off"
    /\ codec_value = <<>>
    /\ codec_enc = "off"
    /\ codec_bytes = <<>>
    /\ codec_dec = None
    /\ codec_pc = "off"

Next ==
    \/ \E c \in Conns, r \in ClientReads \cup {HandshakeMsgs[i] : i \in 1..Len(HandshakeMsgs)} :
            HandleConnection(c, r)
    \/ \E c \in Conns : \E r \in ReadsOf(c) : EvaluateRead(c, r)
    \/ \E c \in Conns : EvaluateStep(c)
    \/ \E c \in Conns : EvaluateSetApply(c)
    \/ \E c \in Conns : EvaluateSubscribe(c)
    \/ \E c \in Conns : EvaluateRecv(c)

Spec == Init /\ [][Next]_vars

(***************************************************************************)
(* SpecReplica: a replica and its connection from its master.  The master   *)
(* is the environment: it writes any of MasterReads on the connection, and  *)
(* the replica's task gives each read to evaluate.                          *)
(***************************************************************************)
InitReplica ==
    /\ now = 0
    /\ overflow_checks = TRUE
    /\ hub_rx0 = FALSE
    /\ peer_closed = [c \in Conns |-> FALSE]
    /\ db = [n \in Nodes |-> EmptyDb]
    /\ handler = "evaluate"
    /\ pc = [c \in Conns |-> IF c = LinkR THEN "read" ELSE "closed"]
    /\ inbox = <<>>
    /\ bm = [c \in Conns |-> <<>>]
    /\ pos = [c \in Conns |-> 0]
    /\ out = [c \in Conns |-> <<>>]
    /\ hub = <<>>
    /\ rx = [c \in Conns |-> -1]
    /\ budget = MaxReads
    /\ delivered = [c \in Conns |-> <<>>]
    /\ executed = [c \in Conns |-> <<>>]
    /\ applied = [n \in Nodes |-> <<>>]
    /\ mutex = 0
    /\ call = [t \in Clients |-> Idle]
    /\ history = <<>>
    /\ port = 6380
    /\ hs_pc = "off"
    /\ hs_sent = <<>>
    /\ hs_recv = <<>>
    /\ main_pc = "handshake"
    /\ cmd_bm = <<>>
    /\ cmd_pos = 0
    /\ commands = <<>>
    /\ cmd_res = "off"
    /\ codec_value = <<>>
    /\ codec_enc = "off"
    /\ codec_bytes = <<>>
    /\ codec_dec = None
    /\ codec_pc = "off"

\* the master writes r on its connection to the replica
MasterWrites(r) ==
    /\ budget > 0
    /\ budget' = budget - 1
    /\ inbox' = Append(inbox, r)
    /\ UNCHANGED <<storeVars, hsVars, parseVars, codecVars>>
    /\ UNCHANGED <<now, overflow_checks, hub_rx0, peer_closed, db, handler, pc, bm, pos, out, hub, rx,
                   delivered, executed, applied>>

NextReplica ==
    \/ \E r \in MasterReads : MasterWrites(r)
    \/ \E r \in ReadsOf(LinkR) : EvaluateRead(LinkR, r)
    \/ EvaluateStep(LinkR)

SpecReplica == InitReplica /\ [][NextReplica]_vars

(***************************************************************************)
(* SpecStore: the tasks of a master calling RedisServer::get and            *)
(* RedisServer::set (src/src/server.rs) while the clock advances.  A call   *)
(* locks self.db, and the guard lives until the call returns.               *)
(***************************************************************************)
MaxTime == 2
MaxCalls == 3

\* a second key, for what a call on one key does to the entry of another
K_qux == <<"q", "u", "x">>

StoreKeys == {K_foo, K_qux}
StoreValues == {V_bar, V_baz}
StoreDurations == {NoneOpt, Some(1)}

\* the calls begun so far
Calls == Len(history) + Cardinality({t \in Clients : call[t].pc # "idle"})

\* a completed call as the history records it: t is the value Instant::now()
\* had in it, ret what a get returned
Event(op, c, t, ret) ==
    [op |-> op, key |-> c.key, value |-> c.value, duration |-> c.duration, t |-> t,
     ret |-> ret]

\* a get whose guard would be dropped right after the lookup
GuardDroppedAfterLookup(t) == 0

\* the task holding the lock after the lookup of get: the guard `db` is
\* dropped at the return only
GuardAfterLookup(t) == t

InitStore ==
    /\ now = 0
    /\ overflow_checks = TRUE
    /\ hub_rx0 = FALSE
    /\ peer_closed = [c \in Conns |-> FALSE]
    /\ db = [n \in Nodes |-> EmptyDb]
    /\ handler = "evaluate"
    /\ pc = [c \in Conns |-> "closed"]
    /\ inbox = <<>>
    /\ bm = [c \in Conns |-> <<>>]
    /\ pos = [c \in Conns |-> 0]
    /\ out = [c \in Conns |-> <<>>]
    /\ hub = <<>>
    /\ rx = [c \in Conns |-> -1]
    /\ budget = 0
    /\ delivered = [c \in Conns |-> <<>>]
    /\ executed = [c \in Conns |-> <<>>]
    /\ applied = [n \in Nodes |-> <<>>]
    /\ mutex = 0
    /\ call = [t \in Clients |-> Idle]
    /\ history = <<>>
    /\ port = 6380
    /\ hs_pc = "off"
    /\ hs_sent = <<>>
    /\ hs_recv = <<>>
    /\ main_pc = "handshake"
    /\ cmd_bm = <<>>
    /\ cmd_pos = 0
    /\ commands = <<>>
    /\ cmd_res = "off"
    /\ codec_value = <<>>
    /\ codec_enc = "off"
    /\ codec_bytes = <<>>
    /\ codec_dec = None
    /\ codec_pc = "off"

\* task t calls self.get(key)
GetCall(t, key) ==
    /\ call[t].pc = "idle"
    /\ Calls < MaxCalls
    /\ call' = [call EXCEPT ![t] = [Idle EXCEPT !.pc = "get_lock", !.key = key]]
    /\ UNCHANGED <<now, db, netVars, hsVars, parseVars, codecVars, mutex, history>>

\* RedisServer::get: self.db.lock().unwrap()
GetLock(t) ==
    /\ call[t].pc = "get_lock"
    /\ mutex = 0
    /\ mutex' = t
    /\ call' = [call EXCEPT ![t].pc = "get_lookup"]
    /\ UNCHANGED <<now, db, netVars, hsVars, parseVars, codecVars, history>>

\* RedisServer::get: let res = db.get(key).cloned()
GetLookup(t) ==
    /\ call[t].pc = "get_lookup"
    /\ call' = [call EXCEPT ![t].pc = "get_check",
                            ![t].res = HashMap_get(db["master"], call[t].key)]
    /\ mutex' = GuardAfterLookup(t)
    /\ UNCHANGED <<now, db, netVars, hsVars, parseVars, codecVars, history>>

\* RedisServer::get from the test of the deadline to the return, where the
\* guard is dropped
GetReturnOf(t, g) ==
    /\ db' = [db EXCEPT !["master"] = g.db]
    /\ history' = Append(history, Event("get", call[t], now, g.value))

GetReturn(t) ==
    /\ call[t].pc = "get_check"
    /\ GetReturnOf(t, RedisServer_get_of(db["master"], call[t].key, call[t].res, now))
    /\ mutex' = 0
    /\ call' = [call EXCEPT ![t] = Idle]
    /\ UNCHANGED <<now, netVars, hsVars, parseVars, codecVars>>

\* task t calls self.set(key, value, duration)
SetCall(t, key, value, duration) ==
    /\ call[t].pc = "idle"
    /\ Calls < MaxCalls
    /\ call' = [call EXCEPT ![t] = [Idle EXCEPT !.pc = "set_lock", !.key = key,
                                                !.value = value, !.duration = duration]]
    /\ UNCHANGED <<now, db, netVars, hsVars, parseVars, codecVars, mutex, history>>

\* RedisServer::set: self.db.lock().unwrap()
SetLock(t) ==
    /\ call[t].pc = "set_lock"
    /\ mutex = 0
    /\ mutex' = t
    /\ call' = [call EXCEPT ![t].pc = "set_insert"]
    /\ UNCHANGED <<now, db, netVars, hsVars, parseVars, codecVars, history>>

\* RedisServer::set from the deadline to the return, where the guard is dropped
SetInsert(t) ==
    /\ call[t].pc = "set_insert"
    /\ db' = [db EXCEPT !["master"] =
                RedisServer_set(@, call[t].key, RString(call[t].value), call[t].duration, now)]
    /\ history' = Append(history, Event("set", call[t], now, NoneOpt))
    /\ mutex' = 0
    /\ call' = [call EXCEPT ![t] = Idle]
    /\ UNCHANGED <<now, netVars, hsVars, parseVars, codecVars>>

\* the monotonic clock advances by a millisecond
Tick ==
    /\ now < MaxTime
    /\ now' = now + 1
    /\ UNCHANGED <<db, netVars, hsVars, parseVars, codecVars, storeVars>>

NextStore ==
    \/ \E t \in Clients, k \in StoreKeys : GetCall(t, k)
    \/ \E t \in Clients : GetLock(t)
    \/ \E t \in Clients : GetLookup(t)
    \/ \E t \in Clients : GetReturn(t)
    \/ \E t \in Clients, k \in StoreKeys, v \in StoreValues, d \in StoreDurations :
            SetCall(t, k, v, d)
    \/ \E t \in Clients : SetLock(t)
    \/ \E t \in Clients : SetInsert(t)
    \/ Tick

SpecStore == InitStore /\ [][NextStore]_vars

(***************************************************************************)
(* SpecHandshake: handshake_master_ping (src/src/main.rs) of a replica.     *)
(* The master is the environment: each read of the stream returns any of    *)
(* MasterReplies or fails.                                                  *)
(***************************************************************************)
W_PING == <<"P", "I", "N", "G">>
W_REPLCONF == <<"R", "E", "P", "L", "C", "O", "N", "F">>
W_listening_port == <<"l", "i", "s", "t", "e", "n", "i", "n", "g", "-", "p", "o", "r", "t">>
W_capa == <<"c", "a", "p", "a">>
W_psync2 == <<"p", "s", "y", "n", "c", "2">>

ReplicaPorts == {6380, 6381}

\* the line +FULLRESYNC <replid> 0 and the RDB payload as a master writes them
FullResyncLine == to_response(RString(S_FULLRESYNC \o MASTER_REPLID \o <<" ", "0">>))
RdbPayload == <<"$">> \o Dec(Len(rdb_dump)) \o CRLF \o rdb_dump

\* what one read of the stream to the master may return; <<>> is a read of
\* 0 bytes
MasterReplies ==
    { PONG_RESP, OK_RESP, FullResyncLine, RdbPayload, FullResyncLine \o RdbPayload, <<>> }

\* a read that returns Err
ReadError == <<"error">>

\* the three commands handshake_master_ping writes, in order
HandshakeCommands(p) ==
    << to_response(RArray(<<RString(W_PING)>>)),
       to_response(RArray(<<RString(W_REPLCONF), RString(W_listening_port), RString(Dec(p))>>)),
       to_response(RArray(<<RString(W_REPLCONF), RString(W_capa), RString(W_psync2)>>)) >>

InitHandshake ==
    /\ now = 0
    /\ overflow_checks = TRUE
    /\ hub_rx0 = FALSE
    /\ peer_closed = [c \in Conns |-> FALSE]
    /\ db = [n \in Nodes |-> EmptyDb]
    /\ handler = "handle_connection"
    /\ pc = [c \in Conns |-> "closed"]
    /\ inbox = <<>>
    /\ bm = [c \in Conns |-> <<>>]
    /\ pos = [c \in Conns |-> 0]
    /\ out = [c \in Conns |-> <<>>]
    /\ hub = <<>>
    /\ rx = [c \in Conns |-> -1]
    /\ budget = 0
    /\ delivered = [c \in Conns |-> <<>>]
    /\ executed = [c \in Conns |-> <<>>]
    /\ applied = [n \in Nodes |-> <<>>]
    /\ mutex = 0
    /\ call = [t \in Clients |-> Idle]
    /\ history = <<>>
    /\ port \in ReplicaPorts
    /\ hs_pc \in {"write", "off"}
    /\ hs_sent = <<>>
    /\ hs_recv = <<>>
    /\ main_pc = "handshake"
    /\ cmd_bm = <<>>
    /\ cmd_pos = 0
    /\ commands = <<>>
    /\ cmd_res = "off"
    /\ codec_value = <<>>
    /\ codec_enc = "off"
    /\ codec_bytes = <<>>
    /\ codec_dec = None
    /\ codec_pc = "off"

\* handshake_master_ping: stream.write_all of the next command, and flush
HandshakeWrite ==
    /\ hs_pc = "write"
    /\ hs_sent' = Append(hs_sent, HandshakeCommands(port)[Len(hs_sent) + 1])
    /\ hs_pc' = "read"
    /\ UNCHANGED <<now, db, netVars, storeVars, parseVars, codecVars, port, hs_recv, main_pc>>

\* handshake_master_ping: stream.read(buf).await?  A failed read returns Err;
\* after the third response the function returns Ok(()), whatever was read.
HandshakeRead(r) ==
    /\ hs_pc = "read"
    /\ IF r = ReadError
       THEN hs_pc' = "err" /\ UNCHANGED hs_recv
       ELSE /\ hs_recv' = Append(hs_recv, r)
            /\ hs_pc' = IF Len(hs_sent) < Len(HandshakeCommands(port)) THEN "write" ELSE "ok"
    /\ UNCHANGED <<now, db, netVars, storeVars, parseVars, codecVars, port, hs_sent, main_pc>>

\* handshake_master_ping: stream.write_all(..).await.unwrap() on a stream the
\* master closed: the task of the handshake panics
HandshakeWriteFails ==
    /\ hs_pc = "write"
    /\ hs_pc' = "panicked"
    /\ UNCHANGED <<now, db, netVars, storeVars, parseVars, codecVars, port, hs_sent, hs_recv, main_pc>>

\* main: master_handle.await.expect(..) panics only when the task of the
\* handshake panicked; the Result of handshake_master_ping is dropped, and
\* main goes on to bind the listener
MainJoin ==
    /\ main_pc = "handshake"
    /\ hs_pc \in {"ok", "err", "panicked"}
    /\ main_pc' = IF hs_pc = "panicked" THEN "aborted" ELSE "listening"
    /\ UNCHANGED <<now, db, netVars, storeVars, parseVars, codecVars, port, hs_pc, hs_sent, hs_recv>>

\* main without --replicaof: master_host_port is None, the `if let` is skipped
\* and main goes on to bind the listener
MainSkipsHandshake ==
    /\ main_pc = "handshake"
    /\ hs_pc = "off"
    /\ main_pc' = "listening"
    /\ UNCHANGED <<now, db, netVars, storeVars, parseVars, codecVars, port, hs_pc, hs_sent, hs_recv>>

NextHandshake ==
    \/ HandshakeWrite
    \/ HandshakeWriteFails
    \/ \E r \in MasterReplies \cup {ReadError} : HandshakeRead(r)
    \/ MainJoin
    \/ MainSkipsHandshake

SpecHandshake == InitHandshake /\ [][NextHandshake]_vars

(***************************************************************************)
(* Parser::parse_commands (src/src/parser.rs): one call on one buffer.      *)
(* A Command is a tuple headed by the name of its variant; a Duration is a  *)
(* number of milliseconds.                                                  *)
(***************************************************************************)
W_px == <<"p", "x">>
W_ex == <<"e", "x">>

Command_Set(key, value, expiry) == <<"Set", key, value, expiry>>
Command_Get(key) == <<"Get", key>>
Command_Ping == <<"Ping">>
Command_Echo(s) == <<"Echo", s>>
Command_Docs == <<"Docs">>
Command_Info == <<"Info">>
Command_ReplConf(sub) == <<"ReplConf", sub>>
Command_Psync == <<"Psync">>

Duration_from_millis(n) == n
Duration_from_secs(n) == n * 1000

\* let bytes_read = pos - start_pos, with its variant that counts from the
\* start of the buffer
bytes_read_from_zero(p, start_pos) == p

bytes_read(p, start_pos) == p - start_pos

ParsedCommand(command, br) == [command |-> command, bytes_read |-> br]

\* the arm "set" with five elements, from the parsed a[4] on: the number is
\* parsed before the option is looked at
parse_commands_expiry(bm_, a, n) ==
    IF ~n.ok THEN Err("IntParseFailure")
    ELSE IF ~ArgOk(bm_, a, 3) THEN Panic("slice index")
    ELSE IF to_lowercase(Arg(bm_, a, 3)) = W_px THEN Ok(0, Some(Duration_from_millis(n.val)))
    ELSE IF to_lowercase(Arg(bm_, a, 3)) = W_ex THEN Ok(0, Some(Duration_from_secs(n.val)))
    ELSE Err("InvalidArgument")

\* the arm "set" from the expiry e on
parse_commands_set_of(bm_, a, e) ==
    IF e.kind # "ok" THEN e
    ELSE Ok(0, Command_Set(Arg(bm_, a, 1), Arg(bm_, a, 2), e.val))

\* the arm "set": an expiry is read only from an array of exactly five
\* elements
parse_commands_set(bm_, a) ==
    IF ~(ArgOk(bm_, a, 1) /\ ArgOk(bm_, a, 2)) THEN Panic("index out of bounds")
    ELSE IF Len(a) = 5
    THEN IF ~ArgOk(bm_, a, 4) THEN Panic("slice index")
         ELSE parse_commands_set_of(bm_, a,
                  parse_commands_expiry(bm_, a, ParseU64(Arg(bm_, a, 4))))
    ELSE parse_commands_set_of(bm_, a, Ok(0, NoneOpt))

\* match command.as_str() of parse_commands: the command to push, or how the
\* call ends
parse_commands_arm(bm_, a, command) ==
    CASE command = W_echo ->
            IF ~ArgOk(bm_, a, 1) THEN Panic("index out of bounds")
            ELSE Ok(0, Command_Echo(Arg(bm_, a, 1)))
      [] command = W_ping -> Ok(0, Command_Ping)
      [] command = W_set -> parse_commands_set(bm_, a)
      [] command = W_get ->
            IF ~ArgOk(bm_, a, 1) THEN Panic("index out of bounds")
            ELSE Ok(0, Command_Get(Arg(bm_, a, 1)))
      [] command = W_docs -> Ok(0, Command_Docs)
      [] command = W_info -> Ok(0, Command_Info)
      [] command = W_replconf ->
            IF ~ArgOk(bm_, a, 1) THEN Panic("index out of bounds")
            ELSE Ok(0, Command_ReplConf(Arg(bm_, a, 1)))
      [] command = W_psync -> Ok(0, Command_Psync)
      [] OTHER -> Panic("not implemented")

\* how a pass of the loop leaves the call: res is "running" or the way the
\* call ended
Pass(res, p, cs) == [res |-> res, pos |-> p, commands |-> cs]

Ended(r, p, cs) ==
    Pass(IF r.kind = "err" THEN r.err ELSE IF r.kind = "hang" THEN "hang" ELSE "panic", p, cs)

\* the branch b'*' from the command c of the arm on
parse_commands_push(p, cs, start_pos, pa, c) ==
    IF c.kind # "ok" THEN Ended(c, p, cs)
    ELSE Pass("running", pa.pos,
              Append(cs, ParsedCommand(c.val, bytes_read(pa.pos, start_pos))))

\* the branch b'*' from the parsed array pa on
parse_commands_array(bm_, p, cs, pa) ==
    IF pa.kind # "ok" THEN Ended(pa, p, cs)
    ELSE IF ~ArgOk(bm_, pa.val, 0) THEN Pass("panic", p, cs)
    ELSE parse_commands_push(p, cs, p, pa,
             parse_commands_arm(bm_, pa.val, to_lowercase(Arg(bm_, pa.val, 0))))

\* the branch b'$' from the parsed bulk string r on: the string is logged
\* and skipped
parse_commands_bulk(p, cs, r) ==
    IF r.kind # "ok" THEN Ended(r, p, cs)
    ELSE Pass("running", r.pos, cs)

\* one pass of `while pos < bm.len()`
parse_commands_pass(bm_, p, cs, checks) ==
    IF At(bm_, p) = "*" THEN parse_commands_array(bm_, p, cs, parse_array(bm_, p, checks))
    ELSE IF At(bm_, p) = "$" THEN parse_commands_bulk(p, cs, parse_bulk_string(bm_, p, checks))
    ELSE Pass("panic", p, cs)

\* what the callers of the model hand to parse_commands
U_SET == <<"S", "E", "T">>
T_10 == <<"1", "0">>
SetRequests ==
    { <<U_SET, K_foo, V_bar>>,
      <<U_SET, K_foo, V_bar, <<"P", "X">>, T_10>>,
      <<U_SET, K_foo, V_bar, <<"p", "x">>, T_10>>,
      <<U_SET, K_foo, V_bar, <<"E", "X">>, T_10>>,
      <<U_SET, K_foo, V_bar, <<"X", "X">>, T_10>>,
      <<U_SET, K_foo, V_bar, <<"N", "X">>>>,
      <<U_SET, K_foo, V_bar, <<"P", "X">>, <<"a", "b", "c">>>> }

OtherRequests ==
    { <<<<"R", "E", "P", "L", "C", "O", "N", "F">>, <<"G", "E", "T", "A", "C", "K">>, <<"*">>>>,
      <<<<"P", "I", "N", "G">>>>,
      <<<<"G", "E", "T">>, K_foo>>,
      <<<<"G", "E", "T">>>>,
      <<<<"F", "L", "U", "S", "H", "A", "L", "L">>>> }

ParseFrames == { Cmd(ws) : ws \in SetRequests \cup OtherRequests } \cup { Bulk(K_foo) }

\* the length line and the payload of an RDB transfer, which has no trailing
\* CR LF, followed by a propagated command
RdbTransfer == <<"$", "5">> \o CRLF \o <<"R", "E", "D", "I", "S">>

RdbThenSet == RdbTransfer \o F_SetBar

\* a bulk string between two command arrays
BulkBetween == F_Ping \o Bulk(K_foo) \o F_SetBar

ParseBuffers ==
    ParseFrames \cup { f \o g : f, g \in ParseFrames } \cup { RdbThenSet, BulkBetween }

InitParse ==
    /\ now = 0
    /\ overflow_checks = TRUE
    /\ hub_rx0 = FALSE
    /\ peer_closed = [c \in Conns |-> FALSE]
    /\ db = [n \in Nodes |-> EmptyDb]
    /\ handler = "handle_connection"
    /\ pc = [c \in Conns |-> "closed"]
    /\ inbox = <<>>
    /\ bm = [c \in Conns |-> <<>>]
    /\ pos = [c \in Conns |-> 0]
    /\ out = [c \in Conns |-> <<>>]
    /\ hub = <<>>
    /\ rx = [c \in Conns |-> -1]
    /\ budget = 0
    /\ delivered = [c \in Conns |-> <<>>]
    /\ executed = [c \in Conns |-> <<>>]
    /\ applied = [n \in Nodes |-> <<>>]
    /\ mutex = 0
    /\ call = [t \in Clients |-> Idle]
    /\ history = <<>>
    /\ port = 6380
    /\ hs_pc = "off"
    /\ hs_sent = <<>>
    /\ hs_recv = <<>>
    /\ main_pc = "handshake"
    /\ cmd_bm \in ParseBuffers
    /\ cmd_pos = 0
    /\ commands = <<>>
    /\ cmd_res = "running"
    /\ codec_value = <<>>
    /\ codec_enc = "off"
    /\ codec_bytes = <<>>
    /\ codec_dec = None
    /\ codec_pc = "off"

\* one pass of the loop of parse_commands, from its result r on
ParseCommandsPassOf(r) ==
    /\ cmd_res' = r.res
    /\ cmd_pos' = r.pos
    /\ commands' = r.commands

ParseCommandsPass ==
    /\ cmd_res = "running"
    /\ cmd_pos < Len(cmd_bm)
    /\ ParseCommandsPassOf(parse_commands_pass(cmd_bm, cmd_pos, commands, overflow_checks))
    /\ UNCHANGED <<now, db, netVars, storeVars, hsVars, codecVars, cmd_bm>>

\* the loop is left: Ok(commands)
ParseCommandsReturn ==
    /\ cmd_res = "running"
    /\ cmd_pos >= Len(cmd_bm)
    /\ cmd_res' = "Ok"
    /\ UNCHANGED <<now, db, netVars, storeVars, hsVars, codecVars, cmd_bm, cmd_pos, commands>>

NextParse ==
    \/ ParseCommandsPass
    \/ ParseCommandsReturn

SpecParse == InitParse /\ [][NextParse]_vars

(***************************************************************************)
(* SpecTtl: one SET frame of five elements given both to a connection      *)
(* handler of a master (handle_connection of main.rs or                    *)
(* RedisServer::evaluate) and to Parser::parse_commands.                   *)
(***************************************************************************)
\* the SET requests that carry an expiry
TtlRequests == {ws \in SetRequests : Len(ws) = 5}

\* the connection that is sent the frame
TtlConn == 1

InitTtl ==
    /\ now \in 0..MaxTime
    /\ overflow_checks = TRUE
    /\ hub_rx0 \in BOOLEAN
    /\ peer_closed = [c \in Conns |-> FALSE]
    /\ db = [n \in Nodes |-> EmptyDb]
    /\ handler \in {"handle_connection", "evaluate"}
    /\ pc = [c \in Conns |-> IF c = TtlConn THEN "read" ELSE "closed"]
    /\ inbox = <<>>
    /\ bm = [c \in Conns |-> <<>>]
    /\ pos = [c \in Conns |-> 0]
    /\ out = [c \in Conns |-> <<>>]
    /\ hub = <<>>
    /\ rx = [c \in Conns |-> -1]
    /\ budget = 1
    /\ delivered = [c \in Conns |-> <<>>]
    /\ executed = [c \in Conns |-> <<>>]
    /\ applied = [n \in Nodes |-> <<>>]
    /\ mutex = 0
    /\ call = [t \in Clients |-> Idle]
    /\ history = <<>>
    /\ port = 6380
    /\ hs_pc = "off"
    /\ hs_sent = <<>>
    /\ hs_recv = <<>>
    /\ main_pc = "handshake"
    /\ cmd_bm \in {Cmd(ws) : ws \in TtlRequests}
    /\ cmd_pos = 0
    /\ commands = <<>>
    /\ cmd_res = "running"
    /\ codec_value = <<>>
    /\ codec_enc = "off"
    /\ codec_bytes = <<>>
    /\ codec_dec = None
    /\ codec_pc = "off"

\* handle_connection reads the frame and executes it
TtlHandleConnection ==
    /\ budget > 0
    /\ Deliver(TtlConn, cmd_bm)
    /\ HandleConnectionOf(TtlConn, cmd_bm)

\* the frame is read and handed to evaluate
TtlEvaluateRead ==
    /\ budget > 0
    /\ Deliver(TtlConn, cmd_bm)
    /\ EvaluateReadOf(TtlConn, cmd_bm)

NextTtl ==
    \/ TtlHandleConnection
    \/ TtlEvaluateRead
    \/ EvaluateStep(TtlConn)
    \/ EvaluateSetApply(TtlConn)
    \/ ParseCommandsPass
    \/ ParseCommandsReturn

SpecTtl == InitTtl /\ [][NextTtl]_vars

(***************************************************************************)
(* The codec: RedisBufSplit::to_resp (src/src/parser.rs) and                *)
(* RedisValue::to_response (src/src/server.rs) encode, parse_bulk_string    *)
(* and parse_array decode.  A RedisBufSplit is a tuple headed by the name   *)
(* of its variant, its words being BufSplits of a buffer src.               *)
(***************************************************************************)
MaxElems == 3

BufSplit_len(w) == w[2] - w[1]

\* RedisBufSplit::to_resp: from the second element of an array on, "\r\n" is
\* pushed before the element
RECURSIVE to_resp(_, _)
to_resp(v, src) ==
    CASE v[1] = "String" ->
            <<"$">> \o Dec(BufSplit_len(v[2])) \o CRLF \o BufSplit_to_string(src, v[2]) \o CRLF
      [] v[1] = "Error" -> <<"-">> \o BufSplit_to_string(src, v[2]) \o CRLF
      [] v[1] = "Int" -> <<":">> \o v[2] \o CRLF
      [] v[1] = "Array" ->
            <<"*">> \o Dec(Len(v[2])) \o CRLF
            \o Flatten([i \in 1..Len(v[2]) |->
                          (IF i > 1 THEN CRLF ELSE <<>>) \o to_resp(v[2][i], src)])
      [] v[1] = "NullArray" -> <<"*", "-", "1">> \o CRLF
      [] OTHER -> <<"$", "-", "1">> \o CRLF

\* the values handed to the encoders: a string, or an array of strings
CodecStrings == { <<>>, K_foo, V_bar }

CodecValues ==
    { RString(s) : s \in CodecStrings }
    \cup { RArray([i \in 1..Len(ss) |-> RString(ss[i])]) :
             ss \in UNION { [1..n -> CodecStrings] : n \in 0..MaxElems } }

\* the same value as a RedisBufSplit: the buffer its words lie in, one after
\* the other, and the words
WordsOf(v) == IF v[1] = "String" THEN <<v[2]>> ELSE [i \in 1..Len(v[2]) |-> v[2][i][2]]

SrcOf(v) == Flatten(WordsOf(v))

WordAt(ws, i) ==
    <<"String", BufSplit(Len(Flatten(SubSeq(ws, 1, i - 1))), Len(Flatten(SubSeq(ws, 1, i))))>>

AsBufSplit(v) ==
    IF v[1] = "String" THEN WordAt(WordsOf(v), 1)
    ELSE <<"Array", [i \in 1..Len(v[2]) |-> WordAt(WordsOf(v), i)]>>

InitCodec ==
    /\ now = 0
    /\ overflow_checks = TRUE
    /\ hub_rx0 = FALSE
    /\ peer_closed = [c \in Conns |-> FALSE]
    /\ db = [n \in Nodes |-> EmptyDb]
    /\ handler = "handle_connection"
    /\ pc = [c \in Conns |-> "closed"]
    /\ inbox = <<>>
    /\ bm = [c \in Conns |-> <<>>]
    /\ pos = [c \in Conns |-> 0]
    /\ out = [c \in Conns |-> <<>>]
    /\ hub = <<>>
    /\ rx = [c \in Conns |-> -1]
    /\ budget = 0
    /\ delivered = [c \in Conns |-> <<>>]
    /\ executed = [c \in Conns |-> <<>>]
    /\ applied = [n \in Nodes |-> <<>>]
    /\ mutex = 0
    /\ call = [t \in Clients |-> Idle]
    /\ history = <<>>
    /\ port = 6380
    /\ hs_pc = "off"
    /\ hs_sent = <<>>
    /\ hs_recv = <<>>
    /\ main_pc = "handshake"
    /\ cmd_bm = <<>>
    /\ cmd_pos = 0
    /\ commands = <<>>
    /\ cmd_res = "off"
    /\ codec_value \in CodecValues
    /\ codec_enc = "off"
    /\ codec_bytes = <<>>
    /\ codec_dec = None
    /\ codec_pc = "value"

\* RedisBufSplit::to_resp on the value
EncodeToResp ==
    /\ codec_pc = "value"
    /\ codec_bytes' = to_resp(AsBufSplit(codec_value), SrcOf(codec_value))
    /\ codec_enc' = "to_resp"
    /\ codec_pc' = "encoded"
    /\ UNCHANGED <<now, db, netVars, storeVars, hsVars, parseVars, codec_value, codec_dec>>

\* RedisValue::to_response on the value
EncodeToResponse ==
    /\ codec_pc = "value"
    /\ codec_bytes' = to_response(codec_value)
    /\ codec_enc' = "to_response"
    /\ codec_pc' = "encoded"
    /\ UNCHANGED <<now, db, netVars, storeVars, hsVars, parseVars, codec_value, codec_dec>>

\* Parser::parse_bulk_string on an encoded string, Parser::parse_array on an
\* encoded array
Decode ==
    /\ codec_pc = "encoded"
    /\ codec_dec' = IF codec_value[1] = "String"
                    THEN parse_bulk_string(codec_bytes, 0, overflow_checks)
                    ELSE parse_array(codec_bytes, 0, overflow_checks)
    /\ codec_pc' = "decoded"
    /\ UNCHANGED <<now, db, netVars, storeVars, hsVars, parseVars, codec_value, codec_enc,
                   codec_bytes>>

NextCodec ==
    \/ EncodeToResp
    \/ EncodeToResponse
    \/ Decode

SpecCodec == InitCodec /\ [][NextCodec]_vars

(***************************************************************************)
(* SpecPrefix: parse_bulk_string and parse_array on a buffer that holds     *)
(* only the beginning of a frame, as after a read that ended mid-frame.     *)
(***************************************************************************)
\* the values whose frames are cut, and their well-formed frames
PrefixValues ==
    { RString(K_foo),
      RArray(<<RString(K_foo)>>),
      RArray(<<RString(K_foo), RString(V_bar)>>),
      RArray(<<RString(U_SET), RString(K_foo), RString(V_bar)>>) }

FrameOf(v) == IF v[1] = "String" THEN Bulk(v[2]) ELSE Cmd(WordsOf(v))

InitPrefix ==
    /\ now = 0
    /\ overflow_checks = TRUE
    /\ hub_rx0 = FALSE
    /\ peer_closed = [c \in Conns |-> FALSE]
    /\ db = [n \in Nodes |-> EmptyDb]
    /\ handler = "handle_connection"
    /\ pc = [c \in Conns |-> "closed"]
    /\ inbox = <<>>
    /\ bm = [c \in Conns |-> <<>>]
    /\ pos = [c \in Conns |-> 0]
    /\ out = [c \in Conns |-> <<>>]
    /\ hub = <<>>
    /\ rx = [c \in Conns |-> -1]
    /\ budget = 0
    /\ delivered = [c \in Conns |-> <<>>]
    /\ executed = [c \in Conns |-> <<>>]
    /\ applied = [n \in Nodes |-> <<>>]
    /\ mutex = 0
    /\ call = [t \in Clients |-> Idle]
    /\ history = <<>>
    /\ port = 6380
    /\ hs_pc = "off"
    /\ hs_sent = <<>>
    /\ hs_recv = <<>>
    /\ main_pc = "handshake"
    /\ cmd_bm = <<>>
    /\ cmd_pos = 0
    /\ commands = <<>>
    /\ cmd_res = "off"
    /\ codec_value \in PrefixValues
    /\ codec_enc = "prefix"
    /\ \E n \in 1..(Len(FrameOf(codec_value)) - 1) :
          codec_bytes = SubSeq(FrameOf(codec_value), 1, n)
    /\ codec_dec = None
    /\ codec_pc = "encoded"

NextPrefix == Decode

SpecPrefix == InitPrefix /\ [][NextPrefix]_vars

(***************************************************************************)
(* SpecClose: the master of Spec whose peers may close their end.  A task   *)
(* that waits for a read or for the hub takes its step once what it waits   *)
(* for is there (weak fairness on those steps, which the tokio runtime      *)
(* provides); nothing is assumed of what the peers send.                    *)
(***************************************************************************)
MasterConns == Clients \cup {LinkM}

\* the peer of connection c closes its end
PeerCloses(c) ==
    /\ ~peer_closed[c]
    /\ peer_closed' = [peer_closed EXCEPT ![c] = TRUE]
    /\ UNCHANGED <<storeVars, hsVars, parseVars, codecVars>>
    /\ UNCHANGED <<now, overflow_checks, hub_rx0, db, handler, pc, inbox, bm, pos, out, hub,
                   rx, budget, delivered, executed, applied>>

\* a task waiting in stream.read gets 0 bytes and leaves its loop: `if n ==
\* 0 { break; }` in handle_connection, and the same in the caller of evaluate
ReadEof(c) ==
    /\ pc[c] = "read"
    /\ peer_closed[c]
    /\ pc' = [pc EXCEPT ![c] = "closed"]
    /\ UNCHANGED <<storeVars, hsVars, parseVars, codecVars>>
    /\ UNCHANGED <<now, overflow_checks, hub_rx0, peer_closed, db, handler, inbox, bm, pos,
                   out, hub, rx, budget, delivered, executed, applied>>

HandleConnectionEof(c) == handler = "handle_connection" /\ ReadEof(c)

EvaluateReadEof(c) == handler = "evaluate" /\ ReadEof(c)

\* evaluate, arm "psync": a message is received and write_all to the closed
\* peer fails: expect panics and the receiver is dropped with the task
EvaluateRecvWriteFails(c) ==
    /\ pc[c] = "recv"
    /\ peer_closed[c]
    /\ rx[c] < Len(hub)
    /\ Len(hub) - rx[c] <= HubCapacity
    /\ rx' = [rx EXCEPT ![c] = @ + 1]
    /\ pc' = [pc EXCEPT ![c] = "panicked"]
    /\ UNCHANGED <<storeVars, hsVars, parseVars, codecVars>>
    /\ UNCHANGED <<now, overflow_checks, hub_rx0, peer_closed, db, handler, inbox, bm, pos,
                   out, hub, budget, delivered, executed, applied>>

InitClose ==
    /\ now = 0
    /\ overflow_checks = TRUE
    /\ hub_rx0 \in BOOLEAN
    /\ peer_closed = [c \in Conns |-> FALSE]
    /\ db = [n \in Nodes |-> EmptyDb]
    /\ handler \in {"handle_connection", "evaluate"}
    /\ pc = [c \in Conns |-> "read"]
    /\ inbox = <<>>
    /\ bm = [c \in Conns |-> <<>>]
    /\ pos = [c \in Conns |-> 0]
    /\ out = [c \in Conns |-> <<>>]
    /\ hub = <<>>
    /\ rx = [c \in Conns |-> -1]
    /\ budget = 1
    /\ delivered = [c \in Conns |-> <<>>]
    /\ executed = [c \in Conns |-> <<>>]
    /\ applied = [n \in Nodes |-> <<>>]
    /\ mutex = 0
    /\ call = [t \in Clients |-> Idle]
    /\ history = <<>>
    /\ port = 6380
    /\ hs_pc = "off"
    /\ hs_sent = <<>>
    /\ hs_recv = <<>>
    /\ main_pc = "handshake"
    /\ cmd_bm = <<>>
    /\ cmd_pos = 0
    /\ commands = <<>>
    /\ cmd_res = "off"
    /\ codec_value = <<>>
    /\ codec_enc = "off"
    /\ codec_bytes = <<>>
    /\ codec_dec = None
    /\ codec_pc = "off"

\* the steps the task of connection c takes when what it waits for is there:
\* after the writes of a PSYNC, on rx.recv() and on a read of 0 bytes
AwaitStep(c) ==
    \/ EvaluateSubscribe(c)
    \/ EvaluateRecv(c)
    \/ EvaluateRecvWriteFails(c)
    \/ HandleConnectionEof(c)
    \/ EvaluateReadEof(c)

\* the steps the task of connection c takes on its own
TaskStep(c) == EvaluateStep(c) \/ EvaluateSetApply(c) \/ AwaitStep(c)

\* what the peers send before they close: a client one SET, the replica its
\* handshake
CloseReads == {F_SetBar} \cup {HandshakeMsgs[i] : i \in 1..Len(HandshakeMsgs)}

NextClose ==
    \/ \E c \in Conns, r \in CloseReads : HandleConnection(c, r)
    \/ \E c \in Conns : \E r \in ReadsOf(c) \cap CloseReads : EvaluateRead(c, r)
    \/ \E c \in MasterConns : PeerCloses(c)
    \/ \E c \in Conns : TaskStep(c)

SpecClose == InitClose /\ [][NextClose]_vars /\ \A c \in Conns : WF_vars(AwaitStep(c))

(***************************************************************************)
(* What the claims speak of                                                 *)
(***************************************************************************)
W_getack == <<"g", "e", "t", "a", "c", "k">>

\* the reply the specification gives REPLCONF GETACK at byte count n
AckReply(n) == Cmd(<<<<"R", "E", "P", "L", "C", "O", "N", "F">>, <<"A", "C", "K">>, Dec(n)>>)

\* the array pa parsed from buf is the command REPLCONF GETACK
IsGetAck(buf, pa) ==
    /\ pa.kind = "ok"
    /\ to_lowercase(Arg(buf, pa.val, 0)) = W_replconf
    /\ ArgOk(buf, pa.val, 1)
    /\ to_lowercase(Arg(buf, pa.val, 1)) = W_getack

\* the bytes of the master's stream that the replica processed before the
\* command at pos
BytesBefore(c) == Len(Flatten(delivered[c])) - Len(bm[c]) + pos[c]

\* the step is one pass of evaluate's loop on connection c
Evaluates(c) ==
    /\ pc[c] = "eval"
    /\ <<pc[c], pos[c], out[c], executed[c]>>' # <<pc[c], pos[c], out[c], executed[c]>>

\* C1: on the connection from its master a replica answers REPLCONF GETACK
\* with the array REPLCONF ACK <c>, c being the decimal count of the bytes
\* of the master's stream processed before the GETACK command itself.
C1_GetAckRepliesAck ==
    [][ (Evaluates(LinkR) /\ IsGetAck(bm[LinkR], EvalFrame(LinkR)))
          => out'[LinkR] = Append(out[LinkR], AckReply(BytesBefore(LinkR))) ]_vars

\* the commands executed on connection c that are REPLCONF GETACK
GetAcksExecuted(c) ==
    {i \in 1..Len(executed[c]) :
        /\ executed[c][i][1] = "replconf"
        /\ to_lowercase(executed[c][i][2]) = W_getack}

\* C2: on the connection from its master a replica writes nothing for any
\* command but REPLCONF GETACK: it has written one reply per GETACK executed
\* and no other.
C2_ReplicaSilent == Len(out[LinkR]) = Cardinality(GetAcksExecuted(LinkR))

\* the name of the command of each frame of buf from position p on, "?" for
\* what is no complete frame
RECURSIVE FrameNames(_, _)
FrameNames(buf, p) ==
    IF p >= Len(buf) THEN <<>>
    ELSE LET pa == parse_array(buf, p, TRUE)
             w == to_lowercase(Arg(buf, pa.val, 0))
         IN  IF At(buf, p) # "*" \/ pa.kind # "ok" \/ pa.pos <= p \/ pa.pos > Len(buf)
                \/ ~ArgOk(buf, pa.val, 0)
             THEN <<"?">>
             ELSE << CASE w = W_set -> "set" [] w = W_get -> "get" [] w = W_ping -> "ping"
                       [] w = W_echo -> "echo" [] w = W_docs -> "docs" [] w = W_info -> "info"
                       [] w = W_replconf -> "replconf" [] w = W_psync -> "psync"
                       [] OTHER -> "?" >>
                  \o FrameNames(buf, pa.pos)

\* the master relayed every message of the hub to the replica, the replica
\* processed all of them, and no SET of a client is under way
Synced ==
    /\ pc[LinkM] = "recv"
    /\ Len(out[LinkM]) = Len(HandshakeMsgs) - 1 + Len(PsyncWrites) + Len(hub)
    /\ rx[LinkM] = Len(hub)
    /\ inbox = <<>>
    /\ pc[LinkR] = "read"
    /\ \A c \in Clients : pc[c] \notin {"eval", "set"}

\* C3: the SETs a master accepts while a replica that completed the
\* handshake stays connected are applied by the replica in the same order,
\* so that, all of them propagated, the replica holds for every key the value
\* the master holds.
C3_ReplicaFollowsMaster ==
    Synced => /\ applied["replica"] = applied["master"]
              /\ \A k \in {K_foo} :
                    RedisServer_get(db["replica"], k, now).value
                        = RedisServer_get(db["master"], k, now).value

\* C4: every message published on the hub is the bytes of exactly one SET
\* command frame: the array at its position 0 is a SET and ends where the
\* message ends.
C4_PublishedIsOneFrame ==
    \A i \in 1..Len(hub) : FrameNames(hub[i], 0) = <<"set">>

\* C5: a connection whose reads were all processed has executed every
\* command frame delivered to it exactly once, in the order of arrival, with
\* one reply each, however many frames a read held.
C5_EveryFrameOnceInOrder ==
    \A c \in Clients :
        pc[c] = "read" =>
            /\ [i \in 1..Len(executed[c]) |-> executed[c][i][1]]
                  = FrameNames(Flatten(delivered[c]), 0)
            /\ Len(out[c]) = Len(executed[c])

\* the task of connection c is at rest: it waits for a read or has ended
AtRest(c) == pc[c] \notin {"eval", "set"}

\* C6: the bytes of a complete frame delivered in two reads, cut at any
\* point, lead to the same executed commands and the same replies as the
\* same bytes delivered in one read: after the first of the two reads the
\* partial frame is kept, nothing is executed or written and the task waits
\* for the rest; after the second the connection has executed and replied
\* what a connection given the whole frame in one read has.
C6_SplitEqualsWhole ==
    \A i \in SplitPoints :
        /\ \A c \in Clients :
              (delivered[c] = <<SubSeq(F_SetBar, 1, i)>> /\ AtRest(c))
              => pc[c] = "read" /\ executed[c] = <<>> /\ out[c] = <<>>
        /\ \A c1, c2 \in Clients :
              ( /\ delivered[c1] = <<F_SetBar>>
                /\ delivered[c2] = <<SubSeq(F_SetBar, 1, i),
                                     SubSeq(F_SetBar, i + 1, Len(F_SetBar))>>
                /\ AtRest(c1) /\ AtRest(c2) )
              => executed[c1] = executed[c2] /\ out[c1] = out[c2]

\* the latest set of key k among the calls completed before the i-th, 0 if
\* there is none
LastSet(i, k) ==
    LET S == {j \in 1..(i - 1) : history[j].op = "set" /\ history[j].key = k}
    IN  IF S = {} THEN 0 ELSE CHOOSE j \in S : \A x \in S : x <= j

\* C7: after set(k, v, Some(d)) at time t0 and no later set of k, a get(k)
\* at time t0 + t returns v when t < d and absent when t >= d, t = d included.
C7_ExpiryAtDeadline ==
    \A i \in 1..Len(history) :
        LET g == history[i]
            j == LastSet(i, g.key)
        IN  (g.op = "get" /\ j > 0 /\ history[j].duration # NoneOpt)
            => /\ g.t - history[j].t < history[j].duration[1]
                    => g.ret = Some(RString(history[j].value))
               /\ g.t - history[j].t >= history[j].duration[1] => g.ret = NoneOpt

\* C8: set replaces both the value and the deadline of the key: the entry of
\* a key, while it is present, is the value of the last set with the deadline
\* now + d of that set, or no deadline if that set carried no duration; and
\* after a last set without duration the key stays present.
C8_SetReplaces ==
    \A k \in StoreKeys :
        LET j == LastSet(Len(history) + 1, k)
        IN  j > 0 =>
              /\ k \in DOMAIN db["master"] =>
                    db["master"][k]
                       = << RString(history[j].value),
                            IF history[j].duration = NoneOpt THEN NoneOpt
                            ELSE Some(history[j].t + history[j].duration[1]) >>
              /\ history[j].duration = NoneOpt => k \in DOMAIN db["master"]

\* a set with a duration, then a set without on the same key, then a get
\* after the deadline of the first that still returns the second's value
C8_Witness ==
    \E i, j, g \in 1..Len(history) :
        /\ i < j /\ j < g
        /\ history[i].op = "set" /\ history[i].duration # NoneOpt
        /\ history[j].op = "set" /\ history[j].duration = NoneOpt
        /\ history[j].key = history[i].key
        /\ history[g].op = "get" /\ history[g].key = history[i].key
        /\ history[g].t > history[i].t + history[i].duration[1]
        /\ history[g].ret = Some(RString(history[j].value))

\* C9: get and set take effect atomically under the one lock of the store:
\* a task inside get or set holds the lock, the entry get looked up is still
\* the entry of the map when get tests and removes it, and a get returns
\* absent or the value of the latest set completed before it.
C9_Atomic ==
    /\ \A t \in Clients :
          call[t].pc \in {"get_lookup", "get_check", "set_insert"} => mutex = t
    /\ \A t \in Clients :
          call[t].pc = "get_check" => HashMap_get(db["master"], call[t].key) = call[t].res
    /\ \A i \in 1..Len(history) :
          (history[i].op = "get" /\ history[i].ret # NoneOpt)
          => /\ LastSet(i, history[i].key) > 0
             /\ history[i].ret = Some(RString(history[LastSet(i, history[i].key)].value))

\* a get looked up an entry whose deadline has passed and is about to remove
\* it while another task waits for the lock to set the same key
C9_Witness ==
    \E t1, t2 \in Clients :
        /\ call[t1].pc = "get_check"
        /\ call[t1].res # NoneOpt
        /\ call[t1].res[1][2] # NoneOpt
        /\ now > call[t1].res[1][2][1]
        /\ call[t2].pc = "set_lock"
        /\ call[t2].key = call[t1].key

\* the messages the specification has the handshake send, in order
SpecifiedHandshake(p) ==
    HandshakeCommands(p)
        \o << to_response(RArray(<<RString(<<"P", "S", "Y", "N", "C">>), RString(<<"?">>),
                                   RString(<<"-", "1">>)>>)) >>

\* C10: the handshake sends PING, REPLCONF listening-port <port>, REPLCONF
\* capa psync2 and PSYNC ? -1 in this order, each only after the reply to the
\* one before was read, and it finishes only after all four were sent and the
\* FULLRESYNC line and the RDB payload were read.
C10_HandshakeOrder ==
    /\ Len(hs_sent) <= Len(SpecifiedHandshake(port))
    /\ hs_sent = SubSeq(SpecifiedHandshake(port), 1, Len(hs_sent))
    /\ Len(hs_sent) <= Len(hs_recv) + 1
    /\ hs_pc = "ok" =>
          /\ hs_sent = SpecifiedHandshake(port)
          /\ Flatten(SubSeq(hs_recv, 4, Len(hs_recv))) = FullResyncLine \o RdbPayload

\* C11: a replica whose handshake met a reply other than the expected one
\* (+PONG, +OK, +OK) or an I/O error never binds its listener: when main is
\* listening, the handshake returned Ok and every reply read was the expected
\* one.
C11_HandshakeFailureAborts ==
    main_pc = "listening" =>
        /\ hs_pc = "ok"
        /\ SubSeq(hs_recv, 1, 3) = <<PONG_RESP, OK_RESP, OK_RESP>>

\* the bytes the specification has a master reply to the first n messages of
\* the handshake
SpecifiedReplies(n) ==
    Flatten(SubSeq(<< <<"+", "P", "O", "N", "G">> \o CRLF,
                      <<"+", "O", "K">> \o CRLF,
                      <<"+", "O", "K">> \o CRLF,
                      <<"+">> \o S_FULLRESYNC \o MASTER_REPLID \o <<" ", "0">> \o CRLF
                          \o <<"$", "8", "8">> \o CRLF \o rdb_dump >>, 1, n))

\* C12: a master that received the first n of PING, REPLCONF listening-port,
\* REPLCONF capa psync2, PSYNC ? -1 on one connection has replied +PONG, +OK,
\* +OK, then +FULLRESYNC <master_replid> 0, $88 and the 88 bytes of the RDB
\* with no trailing CRLF, in this order.
C12_MasterHandshakeReplies ==
    AtRest(LinkM) =>
        LET exp == SpecifiedReplies(Len(delivered[LinkM]))
            got == Flatten(out[LinkM])
        IN  /\ Len(rdb_dump) = 88
            /\ Len(got) >= Len(exp)
            /\ SubSeq(got, 1, Len(exp)) = exp

\* the writes of connection c from the replies to PSYNC on, if PSYNC was
\* answered on it at the k-th write
PsyncAt(c, k) == k + 3 <= Len(out[c]) /\ SubSeq(out[c], k + 1, k + 3) = PsyncWrites

\* C13: once a master replied to PSYNC on a connection, it executes no
\* further command read from it, also none that followed PSYNC in the same
\* buffer, and every write after the replies to PSYNC is a message of the
\* hub, in the hub's order.
C13_SubscriberForLife ==
    \A c \in Conns \ {LinkR} :
        (\E i \in 1..Len(executed[c]) : executed[c][i][1] = "psync") =>
            /\ executed[c][Len(executed[c])][1] = "psync"
            /\ \E k \in 0..Len(out[c]) :
                  /\ PsyncAt(c, k)
                  /\ SubSeq(out[c], k + 4, Len(out[c]))
                        = SubSeq(hub, rx[c] - (Len(out[c]) - k - 3) + 1, rx[c])

\* a connection that sent PSYNC and PING in one read was sent a message of
\* the hub after the replies to PSYNC
C13_Witness ==
    \E c \in Clients :
        /\ delivered[c] = <<F_Psync \o F_Ping>>
        /\ pc[c] = "recv"
        /\ Len(out[c]) > Len(PsyncWrites)

\* C14: on a master's client connection GET k is answered with the bulk
\* string $<len(v)>\r\n<v>\r\n of a value v set for k, or with $-1\r\n, and SET
\* is answered +OK\r\n.
C14_GetRepliesBulk ==
    \A c \in Clients : \A i \in 1..Len(executed[c]) :
        (\A j \in 1..i : executed[c][j][1] # "psync") =>
            /\ executed[c][i][1] = "get" =>
                  \/ out[c][i] = <<"$", "-", "1">> \o CRLF
                  \/ \E j \in 1..Len(applied["master"]) :
                        /\ applied["master"][j][2] = executed[c][i][2]
                        /\ out[c][i] = Bulk(applied["master"][j][3])
            /\ executed[c][i][1] = "set" => out[c][i] = <<"+", "O", "K">> \o CRLF


\* what the specification makes of a SET request ws once the call has ended:
\* no option gives ttl None, PX n gives n milliseconds, EX n gives n seconds
\* (the name in any case), and any other trailing option gives the error
\* InvalidArgument and no command
SetEnds(ttl) ==
    /\ cmd_res = "Ok"
    /\ Len(commands) = 1
    /\ commands[1].command = <<"Set", K_foo, V_bar, ttl>>

SpecifiedSet(ws) ==
    IF Len(ws) = 3 THEN SetEnds(<<>>)
    ELSE IF Len(ws) = 5 /\ to_lowercase(ws[4]) = <<"p", "x">>
    THEN SetEnds(<<DigitsVal(ws[5])>>)
    ELSE IF Len(ws) = 5 /\ to_lowercase(ws[4]) = <<"e", "x">>
    THEN SetEnds(<<1000 * DigitsVal(ws[5])>>)
    ELSE cmd_res = "InvalidArgument" /\ commands = <<>>

\* the SET requests whose trailing number, if any, is a number
NumericSetRequests == { ws \in SetRequests : Len(ws) = 5 => AllDigits(ws[5]) }

\* C15: parse_commands decodes SET k v to Set(k, v, None), SET k v PX n to a
\* ttl of n milliseconds and SET k v EX n to a ttl of n seconds, the option
\* name in any case, and returns InvalidArgument, with no command, for any
\* other trailing option.
C15_SetOptions ==
    \A ws \in NumericSetRequests :
        (cmd_bm = Cmd(ws) /\ cmd_res # "running") => SpecifiedSet(ws)

\* the requests of the menu that are commands the parser knows, complete and
\* with well-formed arguments
CommandRequests ==
    { ws \in SetRequests \cup OtherRequests :
        \/ /\ to_lowercase(ws[1]) = <<"s", "e", "t">>
           /\ Len(ws) = 5 => /\ AllDigits(ws[5])
                             /\ to_lowercase(ws[4]) \in {<<"p", "x">>, <<"e", "x">>}
        \/ to_lowercase(ws[1]) = <<"g", "e", "t">> /\ Len(ws) = 2
        \/ to_lowercase(ws[1]) = <<"p", "i", "n", "g">>
        \/ to_lowercase(ws[1]) = <<"r", "e", "p", "l", "c", "o", "n", "f">> /\ Len(ws) = 3 }

\* the variant of Command that a request is decoded to
VariantOf(ws) ==
    CASE to_lowercase(ws[1]) = <<"s", "e", "t">> -> "Set"
      [] to_lowercase(ws[1]) = <<"g", "e", "t">> -> "Get"
      [] to_lowercase(ws[1]) = <<"p", "i", "n", "g">> -> "Ping"
      [] OTHER -> "ReplConf"

\* the call has returned one ParsedCommand per request of rs, in their order,
\* each with the encoded length of its frame
ReturnedFor(rs) ==
    /\ cmd_res = "Ok"
    /\ Len(commands) = Len(rs)
    /\ \A i \in 1..Len(rs) :
          /\ commands[i].command[1] = VariantOf(rs[i])
          /\ commands[i].bytes_read = Len(Cmd(rs[i]))

RECURSIVE SumBytesRead(_)
SumBytesRead(cs) == IF cs = <<>> THEN 0 ELSE Head(cs).bytes_read + SumBytesRead(Tail(cs))

RequestLists == { <<r>> : r \in CommandRequests } \cup (CommandRequests \X CommandRequests)

\* C16: for a buffer that is a concatenation of complete command arrays,
\* parse_commands returns one ParsedCommand per frame in buffer order, each
\* with bytes_read equal to the frame's encoded length (31 for SET foo bar, 47
\* with PX 10, 37 for REPLCONF GETACK *, 14 for PING), so that the bytes_read
\* values sum to the length of the buffer.
C16_BytesReadPerFrame ==
    /\ Len(Cmd(<<U_SET, K_foo, V_bar>>)) = 31
    /\ Len(Cmd(<<U_SET, K_foo, V_bar, <<"P", "X">>, T_10>>)) = 47
    /\ Len(F_GetAck) = 37
    /\ Len(F_Ping) = 14
    /\ \A rs \in RequestLists :
          (cmd_bm = Flatten([i \in 1..Len(rs) |-> Cmd(rs[i])]) /\ cmd_res # "running") =>
              /\ ReturnedFor(rs)
              /\ SumBytesRead(commands) = Len(cmd_bm)

\* a call on SET foo bar PX 10 followed by PING has returned two commands
C16_Witness ==
    /\ cmd_bm = Cmd(<<U_SET, K_foo, V_bar, <<"P", "X">>, T_10>>) \o F_Ping
    /\ cmd_res = "Ok"
    /\ Len(commands) = 2
    /\ commands[2].bytes_read = 14

\* the value that the decoder's result r stands for in the buffer src
DecodedValue(src, v, r) ==
    IF v[1] = "String" THEN RString(BufSplit_to_string(src, r.val))
    ELSE RArray([i \in 1..Len(r.val) |-> RString(BufSplit_to_string(src, r.val[i]))])

\* C17: encoding then decoding is the identity: for a value built from bulk
\* strings and arrays of bulk strings (of 0, 1, 2 or more elements), decoding
\* what to_resp or to_response returned with parse_bulk_string / parse_array
\* yields the same value, and the position returned is the encoded length.
C17_RoundTrip ==
    codec_pc = "decoded" =>
        /\ codec_dec.kind = "ok"
        /\ codec_dec.pos = Len(codec_bytes)
        /\ DecodedValue(codec_bytes, codec_value, codec_dec) = codec_value

\* reads that are not a well-formed command: a frame cut short, bytes that do
\* not start with '*', and GET without its key
MalformedReads ==
    {SubSeq(F_SetBar, 1, i) : i \in SplitPoints}
    \cup {SubSeq(F_SetBar, i + 1, Len(F_SetBar)) : i \in SplitPoints}
    \cup {F_GetNoKey}

\* C18: whatever bytes a client sends (a first byte that is not '*', a
\* truncated frame, a command with too few arguments), the task of its
\* connection never panics.
C18_NoPanicOnClientInput ==
    \A c \in Clients :
        (delivered[c] # <<>> /\ delivered[c][Len(delivered[c])] \in MalformedReads)
            => pc[c] # "panicked"

\* the reply the specification gives to a command it does not know
ERR_UNKNOWN_COMMAND ==
    <<"-", "E", "R", "R", " ", "u", "n", "k", "n", "o", "w", "n", " ",
      "c", "o", "m", "m", "a", "n", "d">> \o CRLF

\* C19: a command array whose first element is not a supported command is
\* answered -ERR unknown command\r\n on a client connection, and the
\* connection goes on serving commands: its task has not ended.
C19_UnknownCommandAnswered ==
    \A c \in Clients :
        (delivered[c] = <<F_Flushall \o F_Ping>> /\ AtRest(c)) =>
            /\ pc[c] # "panicked"
            /\ out[c] # <<>>
            /\ out[c][1] = ERR_UNKNOWN_COMMAND

\* a subscriber of the hub whose task has ended: it lagged behind the hub's
\* capacity and was dropped
DroppedSubscribers == {s \in Conns : rx[s] >= 0 /\ pc[s] = "panicked"}

\* the task of client d, evaluating a well-formed SET, panics in this step
SetPanics(d) ==
    /\ pc[d] = "eval"
    /\ pc'[d] = "panicked"
    /\ EvalFrame(d).kind = "ok"
    /\ to_lowercase(Arg(bm[d], EvalFrame(d).val, 0)) = W_set
    /\ Len(EvalFrame(d).val) = 3

\* C20: when a replica subscriber lags beyond the hub's capacity only that
\* replica's connection is dropped: the master keeps applying and
\* acknowledging client SETs, so no client's SET fails once a subscriber has
\* been dropped.
C20_OnlyTheLaggingReplicaDropped ==
    [][DroppedSubscribers # {} => \A d \in Clients : ~SetPanics(d)]_vars

\* the number of bytes of the first k messages published to the hub
RECURSIVE PublishedBytes(_)
PublishedBytes(k) == IF k = 0 THEN 0 ELSE Len(hub[k]) + PublishedBytes(k - 1)

\* the body the specification gives INFO replication on a master that has
\* published n bytes
InfoBody(n) ==
    <<"r", "o", "l", "e", ":", "m", "a", "s", "t", "e", "r", "\n">>
    \o <<"m", "a", "s", "t", "e", "r", "_", "r", "e", "p", "l", "i", "d", ":">>
    \o MASTER_REPLID \o <<"\n">>
    \o <<"m", "a", "s", "t", "e", "r", "_", "r", "e", "p", "l", "_", "o", "f", "f", "s", "e", "t", ":">>
    \o Dec(n)

\* the SETs that connection c, served by evaluate, executed before its i-th
\* command: each was published before it was applied
OwnSetsBefore(c, i) ==
    IF handler = "evaluate"
    THEN Cardinality({j \in 1..(i - 1) : executed[c][j][1] = "set"})
    ELSE 0

\* C21: INFO replication on a master is answered with a bulk string whose
\* body has role:master, the 40-hex master_replid and master_repl_offset
\* equal to the number of bytes published to the hub so far (0 before any
\* write).
C21_InfoReplication ==
    \A c \in Clients : \A i \in 1..Len(executed[c]) :
        ( /\ \A j \in 1..i : executed[c][j][1] # "psync"
          /\ executed[c][i] = <<"info", S_replication>> ) =>
            /\ Len(MASTER_REPLID) = 40
            /\ \E k \in OwnSetsBefore(c, i)..Len(hub) :
                  out[c][i] = Bulk(InfoBody(PublishedBytes(k)))

\* what connection c wrote after the three writes of its PSYNC: every command
\* before the PSYNC was answered with one write
WrittenAfterPsync(c) == SubSeq(out[c], Len(executed[c]) + 3, Len(out[c]))

\* C22: a PSYNC-elevated connection writes the hub's messages to its peer in
\* the order they were published, each exactly once, none skipped, duplicated
\* or reordered: what it has written is the run of published messages that
\* ends at its cursor.
C22_SubscriberInOrder ==
    \A c \in Conns :
        rx[c] >= 0 =>
            /\ Len(WrittenAfterPsync(c)) <= rx[c]
            /\ WrittenAfterPsync(c) =
                   SubSeq(hub, rx[c] - Len(WrittenAfterPsync(c)) + 1, rx[c])

\* a subscriber has relayed two different messages
C22_Witness ==
    \E c \in Conns :
        /\ rx[c] >= 2
        /\ Len(WrittenAfterPsync(c)) = 2
        /\ WrittenAfterPsync(c)[1] # WrittenAfterPsync(c)[2]

\* C23: when a buffer holds $<len>\r\n, len RDB bytes with no trailing CR LF
\* and then a command array, decoding resumes at the byte after the payload:
\* parse_bulk_string returns that position, and parse_commands decodes the
\* command that follows in full.
C23_ResumeAfterRdb ==
    (cmd_bm = RdbThenSet /\ cmd_res # "running") =>
        /\ parse_bulk_string(cmd_bm, 0, overflow_checks).kind = "ok"
        /\ parse_bulk_string(cmd_bm, 0, overflow_checks).pos = Len(RdbTransfer)
        /\ cmd_res = "Ok"
        /\ Len(commands) = 1
        /\ commands[1].command = <<"Set", K_foo, V_bar, <<>>>>
        /\ commands[1].bytes_read = Len(F_SetBar)

\* C24: parse_commands skips a bulk string between command arrays without
\* emitting a command and without failing, and still counts its bytes: the
\* bytes accounted for in what it returns equal the position it reached.
C24_SkippedBytesCounted ==
    (cmd_bm = BulkBetween /\ cmd_res # "running") =>
        /\ cmd_res = "Ok"
        /\ Len(commands) = 2
        /\ cmd_pos = Len(cmd_bm)
        /\ SumBytesRead(commands) = cmd_pos

\* C25: for an input that is a strict prefix of a valid frame, parse_bulk_string
\* and parse_array report Incomplete, Ok(None): not an error, not a panic, and
\* no advanced offset.
C25_PrefixIsIncomplete ==
    (codec_enc = "prefix" /\ codec_pc = "decoded") => codec_dec.kind = "none"

\* the task of connection c has ended, by leaving its loop or by a panic
TaskEnded(c) == pc[c] \in {"closed", "panicked"}

\* C26: every connection task eventually terminates once its peer has
\* closed: a task waiting in stream.read leaves its loop on the read of 0
\* bytes, and a PSYNC-elevated connection, waiting in rx.recv(), ends and
\* releases its subscription even if the master publishes no further write.
C26_TasksEndAfterClose ==
    \A c \in MasterConns :
        (peer_closed[c] /\ pc[c] \in {"read", "recv"}) ~> TaskEnded(c)

\* the entry of key k in map m has a deadline and time t is past it
DeadlinePassed(m, k, t) ==
    /\ k \in DOMAIN m
    /\ m[k][2] # NoneOpt
    /\ t > m[k][2][1]

\* maps m and m2 hold the same entry, or none, for key k
SameEntry(m, m2, k) ==
    /\ k \in DOMAIN m <=> k \in DOMAIN m2
    /\ k \in DOMAIN m => m2[k] = m[k]

\* C27: a get on an entry whose deadline has passed removes that entry and
\* returns absent; any other get leaves the whole map unchanged; a get or a
\* set leaves the entry of every key other than its argument as it was; and
\* no step other than the return of a get or a set changes the map, so an
\* expired entry that is not read stays.
C27_LazyRemoval ==
    [][ LET m  == db["master"]
            m2 == db'["master"]
        IN  IF Len(history') = Len(history) THEN m2 = m
            ELSE LET e == history'[Len(history')]
                 IN  /\ \A x \in StoreKeys \ {e.key} : SameEntry(m, m2, x)
                     /\ e.op = "get" =>
                          IF DeadlinePassed(m, e.key, e.t)
                          THEN m2 = HashMap_remove(m, e.key) /\ e.ret = NoneOpt
                          ELSE m2 = m ]_vars

\* a get removed the expired entry of one key and returned absent while the
\* expired entry of another key, never read, is still in the map
C27_Witness ==
    \E g \in 1..Len(history), x \in StoreKeys :
        /\ history[g].op = "get" /\ history[g].ret = NoneOpt
        /\ \E i \in 1..(g - 1) :
              /\ history[i].op = "set" /\ history[i].key = history[g].key
              /\ history[i].duration # NoneOpt
        /\ history[g].key \notin DOMAIN db["master"]
        /\ x # history[g].key
        /\ \A i \in 1..Len(history) : history[i].op = "get" => history[i].key # x
        /\ DeadlinePassed(db["master"], x, now)

\* the task of client c ended in a panic with a well-formed three-element SET
\* as the frame it was executing
PanickedOnSet(c) ==
    /\ pc[c] = "panicked"
    /\ pos[c] < Len(bm[c])
    /\ EvalFrame(c).kind = "ok"
    /\ to_lowercase(Arg(bm[c], EvalFrame(c).val, 0)) = W_set
    /\ Len(EvalFrame(c).val) = 3

\* C28: on a master running evaluate a client SET is applied and answered
\* +OK whatever the number of subscribed replicas, none included: no task
\* ends on a well-formed SET.
C28_SetAnsweredWithoutReplicas ==
    handler = "evaluate" => \A c \in Clients : ~PanickedOnSet(c)

\* the client tasks that have published a SET and not applied it yet
BetweenSendAndSet == {c \in Clients : pc[c] = "set"}

\* C29: on a master running evaluate a SET is published to the hub only if
\* that same SET is applied to the master's store: every message of the hub
\* belongs to a SET applied to the store or to a task about to apply it.
C29_PublishedOnlyIfApplied ==
    handler = "evaluate" =>
        Len(hub) <= Len(applied["master"]) + Cardinality(BetweenSendAndSet)

\* the connections whose task has written the replies to PSYNC and still runs
AnsweredPsync == {c \in Conns : pc[c] \in {"subscribe", "recv"}}

\* C30: a connection that issued PSYNC receives every SET published after
\* +FULLRESYNC was written to it: whenever a message is published, every
\* connection already answered PSYNC holds a receiver of the hub, so that the
\* message is in its stream.
C30_NoWriteMissedBeforeSubscription ==
    [][ Len(hub') > Len(hub) => \A c \in AnsweredPsync : c \in Receivers ]_vars

\* the frame was executed by the handler, or its task ended, and parse_commands
\* has returned
TtlBothDone ==
    /\ cmd_res # "running"
    /\ delivered[TtlConn] = <<cmd_bm>>
    /\ pc[TtlConn] \notin {"eval", "set"}

\* C31: for every five-element SET frame the TTL the connection handlers
\* apply to the store is the ttl parse_commands decodes for the same frame
\* (PX n: n milliseconds, EX n: n seconds), and a frame parse_commands rejects
\* with InvalidArgument leaves the store unchanged.
C31_HandlersApplyParsedTtl ==
    TtlBothDone =>
        /\ cmd_res = "Ok" =>
              \A k \in DOMAIN db["master"] :
                  db["master"][k][2] = Some(now + commands[1].command[4][1])
        /\ cmd_res = "InvalidArgument" => db["master"] = EmptyDb

\* the handshake task has read the reply to the last message it writes
LastReplyRead ==
    /\ hs_sent = HandshakeCommands(port)
    /\ Len(hs_recv) = Len(hs_sent)

\* C32: in replica mode the listener is bound, and a client accepted, only
\* after the handshake task has finished reading the reply to its last
\* handshake message; in master mode the accept loop starts without any
\* handshake: nothing is sent and main is never aborted.
C32_HandshakeBeforeAccept ==
    /\ (hs_pc # "off" /\ main_pc = "listening") => LastReplyRead
    /\ hs_pc = "off" => (hs_sent = <<>> /\ hs_recv = <<>> /\ main_pc # "aborted")

\* the words of the three commands of the handshake driver
HandshakeWords(p) ==
    << <<W_PING>>,
       <<W_REPLCONF, W_listening_port, Dec(p)>>,
       <<W_REPLCONF, W_capa, W_psync2>> >>

\* the decoder of the program accepts the bytes b as one command: parse_array
\* returns an array that ends with b, and one pass of parse_commands on b
\* pushes a command
DecoderAccepts(b) ==
    /\ parse_array(b, 0, overflow_checks).kind = "ok"
    /\ parse_array(b, 0, overflow_checks).pos = Len(b)
    /\ parse_commands_pass(b, 0, <<>>, overflow_checks).res = "running"
    /\ Len(parse_commands_pass(b, 0, <<>>, overflow_checks).commands) = 1

\* C33: every command the handshake driver writes (PING, REPLCONF
\* listening-port <port>, REPLCONF capa psync2) is a RESP array of bulk
\* strings, *1\r\n$4\r\nPING\r\n for PING, which parse_array and
\* parse_commands of this program accept.
C33_HandshakeWritesBulkArrays ==
    \A i \in 1..Len(hs_sent) :
        /\ hs_sent[i] = Cmd(HandshakeWords(port)[i])
        /\ DecoderAccepts(hs_sent[i])

=============================================================================
